---- MODULE Spec2Model ----
(***************************************************************************)
(* Model of the workflow builder's mock persistence layer                  *)
(* (src/src/services/mockApi.ts, src/src/setupProxy.js) and of the editor  *)
(* and UI handlers that call it.                                           *)
(*                                                                         *)
(* Strings that the code builds or parses (ids) are sequences of chunks,   *)
(* so that number formatting and parsing are computed, not assumed.        *)
(* JSON objects are functions from field names to values; an absent field  *)
(* is a name outside the DOMAIN.                                           *)
(***************************************************************************)
EXTENDS Integers, Sequences, FiniteSets

(* ---------------------------- bounds ---------------------------------- *)
\* most workflow files the server's directory holds
MaxFiles == 2
\* most workflows 'mock_workflows' holds
MaxStored == 3
\* most module instances localStorage holds
MaxInstances == 2
\* last tick of the wall clock (every call of the service happens at a later tick)
MaxClock == 3
\* values Math.floor(Math.random() * 1e6) is drawn from
MaxRand == 1

(* ------------------------- program constants --------------------------- *)
InitialLastId == 1000

(* ------------------------- strings and numbers ------------------------- *)
Digits == <<"0", "1", "2", "3", "4", "5", "6", "7", "8", "9">>

\* Number.prototype.toString(): the decimal digits of n, most significant first
RECURSIVE toString(_)
toString(n) ==
    IF n < 10 THEN <<Digits[n + 1]>>
    ELSE Append(toString(n \div 10), Digits[(n % 10) + 1])

DigitVal(c) == (CHOOSE i \in 1..10 : Digits[i] = c) - 1

\* parseInt(s, 10) on a string of decimal digits
RECURSIVE ParseInt(_)
ParseInt(s) ==
    IF Len(s) = 1 THEN DigitVal(s[1])
    ELSE 10 * ParseInt(SubSeq(s, 1, Len(s) - 1)) + DigitVal(s[Len(s)])

\* { ...a, ...b }
Spread(a, b) ==
    [k \in (DOMAIN a) \cup (DOMAIN b) |-> IF k \in DOMAIN b THEN b[k] ELSE a[k]]

\* as FindIndex, with the first index in place of -1
FindIndexOrFirst(seq, wid) ==
    IF \E i \in 1..Len(seq) : seq[i]["id"] = wid
    THEN CHOOSE i \in 1..Len(seq) :
            /\ seq[i]["id"] = wid
            /\ \A j \in 1..(i - 1) : seq[j]["id"] # wid
    ELSE IF Len(seq) > 0 THEN 1 ELSE 0

\* Array.prototype.findIndex: first index whose element satisfies the id test, 0 for -1
FindIndex(seq, wid) ==
    IF \E i \in 1..Len(seq) : seq[i]["id"] = wid
    THEN CHOOSE i \in 1..Len(seq) :
            /\ seq[i]["id"] = wid
            /\ \A j \in 1..(i - 1) : seq[j]["id"] # wid
    ELSE 0

\* Array.prototype.splice(i, 1)
Splice(seq, i) == SubSeq(seq, 1, i - 1) \o SubSeq(seq, i + 1, Len(seq))

(* ------------------------------ data ----------------------------------- *)
ModuleTypes == {"sources", "transformations", "sinks", "tables"}

\* nodes and edges as the editor serialises them
NodeA == [id |-> <<"dndnode_", "0">>, type |-> "source"]
NodeB == [id |-> <<"dndnode_", "1">>, type |-> "sink"]
EdgeAB == [id |-> <<"e", "0", "1">>, source |-> NodeA.id, target |-> NodeB.id]

\* the nodes and the edge of the seed workflow
SeedNodeA == [id |-> <<"node_", "1">>, type |-> "source"]
SeedNodeB == [id |-> <<"node_", "2">>, type |-> "sink"]
SeedEdge == [id |-> <<"edge_", "1">>, source |-> SeedNodeA.id, target |-> SeedNodeB.id]

SeedWorkflowId == <<"wf_seed">>

\* src/data/mock-workflows.json: { workflows: [...] }
SeedWorkflows ==
    << [id |-> SeedWorkflowId, name |-> "Seed", status |-> "active",
        execution_status |-> "pending", updated_at |-> 0,
        nodes |-> <<SeedNodeA, SeedNodeB>>, edges |-> <<SeedEdge>>] >>

\* src/data/mock-modules.json: the definition ids of each module type
ModuleDefinitions ==
    [t \in ModuleTypes |->
        CASE t = "sources" -> {"postgres_source"}
          [] t = "transformations" -> {"filter"}
          [] t = "sinks" -> {"api_sink"}
          [] t = "tables" -> {"temporary_table"}]

\* src/data/mock-module-instances.json
SeedInstances ==
    [t \in ModuleTypes |->
        IF t = "sources"
        THEN << [id |-> <<"1">>, module_id |-> "postgres_source", name |-> "Seed source"] >>
        ELSE <<>>]

(* ------------------------------ state ---------------------------------- *)
VARIABLES
    localStorage,   \* the browser's localStorage: key -> stored value, absent keys outside DOMAIN
    lastId,         \* MockApiService.lastId
    files,          \* src/data/workflows: workflow id (file name) -> document
    apiUp,          \* whether fetch('/mock-api/...') reaches the dev server
    clock,          \* wall clock, in ticks
    call,           \* the last service call: [op, wid, data]
    ret             \* and its outcome

svars == <<localStorage, lastId, files, apiUp, clock, call, ret>>

VARIABLES
    currentView,         \* App: 'dashboard' | 'builder' | 'modules'
    workflowId,          \* WorkflowEditor's workflowId prop, <<>> for null
    nodes,               \* the canvas: useNodesState
    edges,               \* useEdgesState
    idCounter,           \* the module-level `let id` behind getId
    reactFlowInstance,   \* whether onInit has handed over the instance
    loadsInFlight,       \* getWorkflowById requests of the load effect not yet answered
    showModuleModal,     \* the module selection modal is open
    showTableModal,      \* the quick table modal is open
    pendingNodeType,     \* node type of the last drop on the module modal's side
    pendingPosition,     \* projected position of the last drop
    modalItems,          \* the instances the open modal has loaded
    modalLoading,        \* the open modal's fetch has not been answered yet
    pendingExecute,      \* onExecute between its two awaits: <<id>> of the saved workflow
    dash,                \* WorkflowDashboard: [loading, workflows]
    mm,                  \* ModuleManagement: [activeTab, showForm, editing, instances, loading]
    ui,                  \* what the last UI handler did with its API call
    faulty               \* whether the service's calls reject (localStorage access throws)

VARIABLES
    inflight,            \* calls of the service started and not yet past their awaits
    settled              \* the calls that have returned, in the order they returned

cvars == <<inflight, settled>>

VARIABLES
    args,                \* the arguments a utility function is called with
    result               \* what the call returned, <<>> before it has

uvars == <<args, result>>

\* the state of a mounted WorkflowEditor
evars == <<nodes, edges, reactFlowInstance, showModuleModal, showTableModal, pendingNodeType,
           pendingPosition,
           modalItems, modalLoading>>

\* STORAGE_KEYS
MODULE_INSTANCES == "mock_module_instances"
WORKFLOWS == "mock_workflows"
LAST_ID == "mock_last_id"

\* localStorage.setItem / removeItem
SetItem(ls, k, v) == [x \in (DOMAIN ls) \cup {k} |-> IF x = k THEN v ELSE ls[x]]
RemoveItem(ls, k) == [x \in (DOMAIN ls) \ {k} |-> ls[x]]

\* MockApiService.getLastId
getLastId(ls) == IF LAST_ID \in DOMAIN ls THEN ParseInt(ls[LAST_ID]) ELSE InitialLastId

\* MockApiService.initializeStorage
initializeStorage(ls) ==
    LET ls1 == IF MODULE_INSTANCES \in DOMAIN ls THEN ls
               ELSE SetItem(ls, MODULE_INSTANCES, SeedInstances)
    IN  IF WORKFLOWS \in DOMAIN ls1 THEN ls1
        ELSE SetItem(ls1, WORKFLOWS, [workflows |-> SeedWorkflows])

\* MockApiService.getStoredInstances / getStoredWorkflows
getStoredInstances(ls) ==
    IF MODULE_INSTANCES \in DOMAIN ls THEN ls[MODULE_INSTANCES]
    ELSE [t \in ModuleTypes |-> <<>>]

getStoredWorkflows(ls) ==
    IF WORKFLOWS \in DOMAIN ls THEN ls[WORKFLOWS] ELSE [workflows |-> <<>>]

\* MockApiService.generateId: the new counter value (setLastId stores it) and the id string
generateIdNum(last) == last + 1

\* setupProxy.js seedIfEmpty on an empty directory: one file per seed workflow
SeedFiles ==
    [wid \in {SeedWorkflows[i]["id"] : i \in 1..Len(SeedWorkflows)} |->
        SeedWorkflows[CHOOSE i \in 1..Len(SeedWorkflows) : SeedWorkflows[i]["id"] = wid]]

\* the viewport a workflow gets when the payload has none: { x: 0, y: 0, zoom: 1 }
DefaultViewport == [x |-> 0, y |-> 0, zoom |-> 1]

NoCall == [op |-> "none", wid |-> <<>>, data |-> <<>>]
NoRet == [served |-> FALSE, lsRead |-> FALSE, threw |-> FALSE, val |-> <<>>,
          success |-> FALSE, execId |-> FALSE]

(* ------------------- file-backed server (setupProxy.js) ---------------- *)
\* generateId(): `wf_${Date.now()}_${Math.floor(Math.random() * 1e6)}`
ServerGenerateId(now, r) == <<"wf_">> \o toString(now) \o <<"_">> \o toString(r)

\* as PostChosenIds, without the loop of lines 132-134
PostChosenIdsNoLoop(fs, body, now) ==
    IF "id" \in DOMAIN body /\ body["id"] # <<>>
    THEN {body["id"]}
    ELSE {ServerGenerateId(now, r) : r \in 0..(MaxRand - 1)}

\* POST /mock-api/workflows: the id the handler ends up writing to. It starts from
\* the body's id when that is truthy, else from a generated one, and while a file of
\* that name exists it draws again; the loop can only be left with an unused name.
PostChosenIds(fs, body, now) ==
    LET first == IF "id" \in DOMAIN body /\ body["id"] # <<>>
                 THEN {body["id"]}
                 ELSE {ServerGenerateId(now, r) : r \in 0..(MaxRand - 1)}
        again == {ServerGenerateId(now, r) : r \in 0..(MaxRand - 1)}
    IN  {wid \in first : wid \notin DOMAIN fs}
        \cup (IF \E wid \in first : wid \in DOMAIN fs
              THEN {wid \in again : wid \notin DOMAIN fs} ELSE {})

\* the document POST builds
PostDocument(wid, body, now) ==
    [id |-> wid,
     name |-> IF "name" \in DOMAIN body /\ body["name"] # "" THEN body["name"]
              ELSE "Untitled Workflow",
     status |-> IF "status" \in DOMAIN body /\ body["status"] # "" THEN body["status"]
                ELSE "draft",
     execution_status |-> "pending",
     updated_at |-> now,
     nodes |-> IF "nodes" \in DOMAIN body THEN body["nodes"] ELSE <<>>,
     edges |-> IF "edges" \in DOMAIN body THEN body["edges"] ELSE <<>>,
     viewport |-> IF "viewport" \in DOMAIN body THEN body["viewport"]
                  ELSE DefaultViewport]

\* PUT /mock-api/workflows/:id: the document written over an existing one
PutDocument(existing, body, now) ==
    Spread(Spread(existing, body), [id |-> existing["id"], updated_at |-> now])

\* writeJson(getWorkflowPath(id), doc)
WriteFile(fs, wid, doc) == [x \in (DOMAIN fs) \cup {wid} |-> IF x = wid THEN doc ELSE fs[x]]
\* fs.unlinkSync(getWorkflowPath(id))
Unlink(fs, wid) == [x \in (DOMAIN fs) \ {wid} |-> fs[x]]

\* POST /mock-api/workflows/:id/execute: the document written back
ExecuteDocument(existing, status, now) ==
    Spread(existing, [execution_status |-> status, updated_at |-> now])

\* GET /mock-api/workflows: every file's document, most recently updated first;
\* documents with equal updated_at keep the directory listing's order.
RECURSIVE SortedDocs(_)
SortedDocs(fs) ==
    IF DOMAIN fs = {} THEN <<>>
    ELSE LET top == CHOOSE w \in DOMAIN fs :
                      \A v \in DOMAIN fs : fs[v]["updated_at"] <= fs[w]["updated_at"]
         IN  <<fs[top]>> \o SortedDocs(Unlink(fs, top))

(* --------------- localStorage fallback (mockApi.ts) -------------------- *)
\* the workflow saveWorkflow builds in the fallback
LocalDocument(wid, data, now) ==
    [id |-> wid,
     name |-> IF "name" \in DOMAIN data /\ data["name"] # "" THEN data["name"]
              ELSE "Untitled Workflow",
     status |-> "draft",
     execution_status |-> "pending",
     updated_at |-> now,
     nodes |-> IF "nodes" \in DOMAIN data THEN data["nodes"] ELSE <<>>,
     edges |-> IF "edges" \in DOMAIN data THEN data["edges"] ELSE <<>>,
     viewport |-> IF "viewport" \in DOMAIN data THEN data["viewport"]
                  ELSE DefaultViewport]

\* as LocalUpdated, with the two spreads in the other order
LocalUpdatedExistingWins(existing, data, now) ==
    Spread(Spread(data, existing), [updated_at |-> now])

\* the workflow updateWorkflow stores in the fallback
LocalUpdated(existing, data, now) ==
    Spread(Spread(existing, data), [updated_at |-> now])

\* localStorage after setStoredWorkflows({workflows: ws})
WithWorkflows(ls, ws) == SetItem(ls, WORKFLOWS, [workflows |-> ws])

\* What a call's localStorage.getItem returns. snap is the contents when the call
\* was started; the reads (mockApi.ts lines 54 and 66) run after the call's awaits,
\* in the same synchronous run as its write, so they see the current contents.
ReadStorageEarly(snap) == snap
ReadStorage(snap) == localStorage

Stored == getStoredWorkflows(localStorage)["workflows"]

Ret(served, lsRead, threw, val) ==
    [served |-> served, lsRead |-> lsRead, threw |-> threw, val |-> val,
     success |-> FALSE, execId |-> FALSE]

(* ------------------ MockApiService: workflow methods ------------------- *)
\* getWorkflows()
getWorkflows ==
    /\ clock < MaxClock
    /\ clock' = clock + 1
    /\ call' = [op |-> "getWorkflows", wid |-> <<>>, data |-> <<>>]
    /\ IF apiUp
       THEN ret' = Ret(TRUE, FALSE, FALSE, SortedDocs(files))
       ELSE ret' = Ret(FALSE, TRUE, FALSE, getStoredWorkflows(ReadStorage(localStorage))["workflows"])
    /\ UNCHANGED <<localStorage, lastId, files, apiUp>>

\* getWorkflowById(workflowId)
getWorkflowById(wid) ==
    /\ clock < MaxClock
    /\ clock' = clock + 1
    /\ call' = [op |-> "getWorkflowById", wid |-> wid, data |-> <<>>]
    /\ IF apiUp /\ wid \in DOMAIN files
       THEN ret' = Ret(TRUE, FALSE, FALSE, <<files[wid]>>)
       ELSE LET ws == getStoredWorkflows(ReadStorage(localStorage))["workflows"]
                i == FindIndex(ws, wid)
            IN  ret' = Ret(FALSE, TRUE, FALSE, IF i = 0 THEN <<>> ELSE <<ws[i]>>)
    /\ UNCHANGED <<localStorage, lastId, files, apiUp>>

\* the fallback part of saveWorkflow (lines 267-287)
saveWorkflowLocal(snap, data, now) ==
    LET ws == getStoredWorkflows(ReadStorage(snap))["workflows"]
        newId == generateIdNum(lastId)
        workflow == LocalDocument(toString(newId), data, now)
    IN  /\ lastId' = newId
        /\ localStorage' =
              WithWorkflows(SetItem(localStorage, LAST_ID, toString(newId)),
                            Append(ws, workflow))
        /\ ret' = Ret(FALSE, TRUE, FALSE, <<workflow>>)
        /\ UNCHANGED files

\* as saveWorkflow, with the early return of line 263 missing: the fallback runs
\* after a successful POST as well
saveWorkflowNoReturn(data) ==
    /\ clock < MaxClock
    /\ IF apiUp THEN Cardinality(DOMAIN files) < MaxFiles
                ELSE Len(Stored) < MaxStored
    /\ clock' = clock + 1
    /\ call' = [op |-> "saveWorkflow", wid |-> <<>>, data |-> data]
    /\ LET ws == getStoredWorkflows(localStorage)["workflows"]
           newId == generateIdNum(lastId)
           workflow == LocalDocument(toString(newId), data, clock + 1)
       IN  /\ lastId' = newId
           /\ localStorage' =
                 WithWorkflows(SetItem(localStorage, LAST_ID, toString(newId)),
                               Append(ws, workflow))
           /\ IF apiUp
              THEN \E wid \in PostChosenIds(files, data, clock + 1) :
                     /\ files' = WriteFile(files, wid, PostDocument(wid, data, clock + 1))
                     /\ ret' = Ret(TRUE, TRUE, FALSE, <<workflow>>)
              ELSE /\ files' = files
                   /\ ret' = Ret(FALSE, TRUE, FALSE, <<workflow>>)
    /\ UNCHANGED apiUp

\* saveWorkflow(workflowData)
saveWorkflow(data) ==
    /\ clock < MaxClock
    /\ IF apiUp THEN Cardinality(DOMAIN files) < MaxFiles
                ELSE Len(Stored) < MaxStored
    /\ clock' = clock + 1
    /\ call' = [op |-> "saveWorkflow", wid |-> <<>>, data |-> data]
    /\ IF apiUp
       THEN /\ \E wid \in PostChosenIds(files, data, clock + 1) :
                 LET workflow == PostDocument(wid, data, clock + 1)
                 IN  /\ files' = WriteFile(files, wid, workflow)
                     /\ ret' = Ret(TRUE, FALSE, FALSE, <<workflow>>)
            /\ UNCHANGED <<localStorage, lastId>>
       ELSE saveWorkflowLocal(localStorage, data, clock + 1)
    /\ UNCHANGED apiUp

\* the fallback part of updateWorkflow (lines 303-318)
updateWorkflowLocal(snap, wid, data, now) ==
    LET ws == getStoredWorkflows(ReadStorage(snap))["workflows"]
        i == FindIndex(ws, wid)
    IN  IF i = 0
        THEN /\ ret' = Ret(FALSE, TRUE, TRUE, <<>>)
             /\ UNCHANGED <<localStorage, lastId, files>>
        ELSE LET updated == LocalUpdated(ws[i], data, now)
             IN  /\ localStorage' = WithWorkflows(localStorage, [ws EXCEPT ![i] = updated])
                 /\ ret' = Ret(FALSE, TRUE, FALSE, <<updated>>)
                 /\ UNCHANGED <<lastId, files>>

\* updateWorkflow(workflowId, workflowData)
updateWorkflow(wid, data) ==
    /\ clock < MaxClock
    /\ clock' = clock + 1
    /\ call' = [op |-> "updateWorkflow", wid |-> wid, data |-> data]
    /\ IF apiUp /\ wid \in DOMAIN files
       THEN LET updated == PutDocument(files[wid], data, clock + 1)
            IN  /\ files' = WriteFile(files, files[wid]["id"], updated)
                /\ ret' = Ret(TRUE, FALSE, FALSE, <<updated>>)
                /\ UNCHANGED <<localStorage, lastId>>
       ELSE updateWorkflowLocal(localStorage, wid, data, clock + 1)
    /\ UNCHANGED apiUp

\* the fallback part of deleteWorkflow (lines 330-339)
deleteWorkflowLocal(snap, wid) ==
    LET ws == getStoredWorkflows(ReadStorage(snap))["workflows"]
        i == FindIndex(ws, wid)
    IN  IF i = 0
        THEN /\ ret' = Ret(FALSE, TRUE, TRUE, <<>>)
             /\ UNCHANGED <<localStorage, lastId, files>>
        ELSE /\ localStorage' = WithWorkflows(localStorage, Splice(ws, i))
             /\ ret' = Ret(FALSE, TRUE, FALSE, <<>>)
             /\ UNCHANGED <<lastId, files>>

\* deleteWorkflow(workflowId)
deleteWorkflow(wid) ==
    /\ clock < MaxClock
    /\ clock' = clock + 1
    /\ call' = [op |-> "deleteWorkflow", wid |-> wid, data |-> <<>>]
    /\ IF apiUp /\ wid \in DOMAIN files
       THEN /\ files' = Unlink(files, wid)
            /\ ret' = Ret(TRUE, FALSE, FALSE, <<>>)
            /\ UNCHANGED <<localStorage, lastId>>
       ELSE deleteWorkflowLocal(localStorage, wid)
    /\ UNCHANGED apiUp

\* Math.random() > 0.2 ? 'success' : 'failed'
ExecutionStatus(lucky) == IF lucky THEN "success" ELSE "failed"

\* the value executeWorkflow resolves to in the fallback: shouldSucceed is a second,
\* independent Math.random() draw (line 363)
LocalExecuteResult(shouldSucceed) ==
    [served |-> FALSE, lsRead |-> TRUE, threw |-> FALSE, val |-> <<>>,
     success |-> shouldSucceed, execId |-> shouldSucceed]

\* the value POST /mock-api/workflows/:id/execute answers with (lines 201-206)
ServerExecuteResult(status) ==
    [served |-> TRUE, lsRead |-> FALSE, threw |-> FALSE, val |-> <<>>,
     success |-> (status = "success"), execId |-> (status = "success")]

\* the fallback part of executeWorkflow (lines 353-376)
executeWorkflowLocal(snap, wid, statusLucky, shouldSucceed) ==
    LET ws == getStoredWorkflows(ReadStorage(snap))["workflows"]
        i == FindIndex(ws, wid)
        ls1 == IF i = 0 THEN localStorage
               ELSE WithWorkflows(localStorage,
                        [ws EXCEPT ![i] = Spread(ws[i],
                            [execution_status |-> ExecutionStatus(statusLucky)])])
        newId == generateIdNum(lastId)
    IN  /\ IF shouldSucceed
           THEN /\ lastId' = newId
                /\ localStorage' = SetItem(ls1, LAST_ID, toString(newId))
           ELSE /\ lastId' = lastId
                /\ localStorage' = ls1
        /\ ret' = LocalExecuteResult(shouldSucceed)
        /\ UNCHANGED files

\* executeWorkflow(workflowId)
executeWorkflow(wid) ==
    /\ clock < MaxClock
    /\ clock' = clock + 1
    /\ call' = [op |-> "executeWorkflow", wid |-> wid, data |-> <<>>]
    /\ IF apiUp /\ wid \in DOMAIN files
       THEN \E lucky \in BOOLEAN :
              LET existing == ExecuteDocument(files[wid], ExecutionStatus(lucky), clock + 1)
              IN  /\ files' = WriteFile(files, existing["id"], existing)
                  /\ ret' = ServerExecuteResult(existing["execution_status"])
                  /\ UNCHANGED <<localStorage, lastId>>
       ELSE \E statusLucky \in BOOLEAN, shouldSucceed \in BOOLEAN :
              executeWorkflowLocal(localStorage, wid, statusLucky, shouldSucceed)
    /\ UNCHANGED apiUp

(* --------------- MockApiService: module instance methods --------------- *)
InstanceCount(inst) ==
    Len(inst["sources"]) + Len(inst["transformations"]) + Len(inst["sinks"]) + Len(inst["tables"])

\* as moduleExists, looking through the definitions of every module type
moduleExistsAnyType(t, data) ==
    \E u \in ModuleTypes : data["module_id"] \in ModuleDefinitions[u]

\* moduleDefinitions[moduleType].some(def => def.id === data.module_id)
moduleExists(t, data) == data["module_id"] \in ModuleDefinitions[t]

\* createModuleInstance(moduleType, data)
createModuleInstance(snap, t, data) ==
    /\ clock < MaxClock
    /\ InstanceCount(getStoredInstances(localStorage)) < MaxInstances
    /\ clock' = clock + 1
    /\ call' = [op |-> "createModuleInstance", wid |-> <<>>, data |-> data, t |-> t]
    /\ IF ~moduleExists(t, data)
       THEN /\ ret' = Ret(FALSE, FALSE, TRUE, <<>>)
            /\ UNCHANGED <<localStorage, lastId>>
       ELSE LET instances == getStoredInstances(ReadStorage(snap))
                newId == generateIdNum(lastId)
                newInstance == [id |-> toString(newId), module_id |-> data["module_id"],
                                name |-> data["name"]]
            IN  /\ lastId' = newId
                /\ localStorage' =
                      SetItem(SetItem(localStorage, LAST_ID, toString(newId)),
                              MODULE_INSTANCES,
                              [instances EXCEPT ![t] = Append(@, newInstance)])
                /\ ret' = Ret(FALSE, FALSE, FALSE, <<newInstance>>)
    /\ UNCHANGED <<files, apiUp>>

\* updateModuleInstance(moduleType, instanceId, data)
updateModuleInstance(snap, t, iid, data) ==
    /\ clock < MaxClock
    /\ clock' = clock + 1
    /\ call' = [op |-> "updateModuleInstance", wid |-> iid, data |-> data, t |-> t]
    /\ LET instances == getStoredInstances(ReadStorage(snap))
           i == FindIndex(instances[t], iid)
       IN  IF i = 0
           THEN /\ ret' = Ret(FALSE, FALSE, TRUE, <<>>)
                /\ UNCHANGED localStorage
           ELSE LET updated == Spread(instances[t][i],
                                  [module_id |-> data["module_id"], name |-> data["name"]])
                IN  /\ localStorage' = SetItem(localStorage, MODULE_INSTANCES,
                                           [instances EXCEPT ![t][i] = updated])
                    /\ ret' = Ret(FALSE, FALSE, FALSE, <<updated>>)
    /\ UNCHANGED <<lastId, files, apiUp>>

\* deleteModuleInstance(moduleType, instanceId)
deleteModuleInstance(snap, t, iid) ==
    /\ clock < MaxClock
    /\ clock' = clock + 1
    /\ call' = [op |-> "deleteModuleInstance", wid |-> iid, data |-> <<>>, t |-> t]
    /\ LET instances == getStoredInstances(ReadStorage(snap))
           i == FindIndex(instances[t], iid)
       IN  IF i = 0
           THEN /\ ret' = Ret(FALSE, FALSE, TRUE, <<>>)
                /\ UNCHANGED localStorage
           ELSE /\ localStorage' = SetItem(localStorage, MODULE_INSTANCES,
                                      [instances EXCEPT ![t] = Splice(@, i)])
                /\ ret' = Ret(FALSE, FALSE, FALSE, <<>>)
    /\ UNCHANGED <<lastId, files, apiUp>>

\* resetStorage()
resetStorage ==
    /\ clock < MaxClock
    /\ clock' = clock + 1
    /\ call' = [op |-> "resetStorage", wid |-> <<>>, data |-> <<>>]
    /\ ret' = Ret(FALSE, FALSE, FALSE, <<>>)
    /\ lastId' = InitialLastId
    /\ localStorage' =
          initializeStorage(RemoveItem(RemoveItem(localStorage, MODULE_INSTANCES), LAST_ID))
    /\ UNCHANGED <<files, apiUp>>

\* constructor(), run by a page load: the module's singleton is built anew over
\* whatever localStorage holds
constructor ==
    /\ lastId' = getLastId(localStorage)
    /\ localStorage' = initializeStorage(localStorage)
    /\ UNCHANGED <<files, apiUp, clock, call, ret>>

\* the dev server stops, or starts again: setup() runs seedIfEmpty over the files
\* left on disk (setupProxy.js lines 90-91)
SetApiUp ==
    /\ apiUp' = ~apiUp
    /\ files' = IF ~apiUp /\ DOMAIN files = {} THEN SeedFiles ELSE files
    /\ UNCHANGED <<localStorage, lastId, clock, call, ret>>

(* --------------------- inputs of the service calls --------------------- *)
\* a canvas as the editor sends it
PFull == [name |-> "A", nodes |-> <<NodeA, NodeB>>, edges |-> <<EdgeAB>>,
          viewport |-> [x |-> 5, y |-> 7, zoom |-> 2]]
\* a partial update: nodes only
PNodesOnly == [nodes |-> <<NodeA>>]
\* a payload that carries the id of the seed workflow, and an edge whose target is
\* not among its nodes
PWithId == [id |-> SeedWorkflowId, name |-> "B", nodes |-> <<NodeA>>, edges |-> <<EdgeAB>>]

Payloads == {PFull, PNodesOnly, PWithId}

MissingId == <<"missing">>

\* ids a caller may name: those of either store, and one that is in neither
KnownIds ==
    (DOMAIN files) \cup {Stored[i]["id"] : i \in 1..Len(Stored)} \cup {MissingId}

InstanceInputs ==
    {[module_id |-> m, name |-> "inst"] : m \in {"postgres_source", "no_such_module"}}

KnownInstanceIds ==
    LET inst == getStoredInstances(localStorage)
    IN  UNION {{inst[t][i]["id"] : i \in 1..Len(inst[t])} : t \in ModuleTypes}
        \cup {MissingId}

(* ------------------------- the service alone --------------------------- *)
others == <<currentView, workflowId, idCounter, evars, loadsInFlight, pendingExecute,
            dash, mm, ui, faulty, cvars, uvars>>

ServiceInit ==
    /\ localStorage = initializeStorage([k \in {} |-> <<>>])
    /\ lastId = getLastId([k \in {} |-> <<>>])
    /\ files = SeedFiles
    /\ apiUp \in BOOLEAN
    /\ clock = 0
    /\ call = NoCall
    /\ ret = NoRet

\* a UI handler's record: which handler ran, whether its API call failed, and
\* whether it showed an alert dialog, logged to the console, or let the error escape
Outcome(handler, failed, alerted, logged) ==
    [handler |-> handler, failed |-> failed, alerted |-> alerted, logged |-> logged,
     uncaught |-> FALSE]

\* WorkflowEditor's state when it mounts
EditorUnmounted ==
    /\ workflowId = <<>>
    /\ nodes = <<>>
    /\ edges = <<>>
    /\ reactFlowInstance = FALSE
    /\ loadsInFlight = 0
    /\ showModuleModal = FALSE
    /\ showTableModal = FALSE
    /\ pendingNodeType = "source"
    /\ pendingPosition = [x |-> 0, y |-> 0]
    /\ modalItems = <<>>
    /\ modalLoading = FALSE
    /\ pendingExecute = <<>>

\* WorkflowDashboard's and ModuleManagement's state before their first load
DashUnmounted == [loading |-> TRUE, workflows |-> <<>>]
MmUnmounted == [activeTab |-> "sources", showForm |-> FALSE, editing |-> <<>>,
                instances |-> [t \in ModuleTypes |-> <<>>], loading |-> TRUE]

\* the page as loaded: App shows the dashboard, the editor module's id is 0
UiInit ==
    /\ currentView = "dashboard"
    /\ idCounter = 0
    /\ EditorUnmounted
    /\ dash = DashUnmounted
    /\ mm = MmUnmounted
    /\ ui = Outcome("none", FALSE, FALSE, FALSE)
    /\ faulty = FALSE
    /\ inflight = <<>>
    /\ settled = <<>>

\* no utility function has been called
UtilInit ==
    /\ args = <<>>
    /\ result = <<>>

Init == ServiceInit /\ UiInit /\ UtilInit

GetWorkflows == getWorkflows /\ UNCHANGED others
GetWorkflowById == \E wid \in KnownIds : getWorkflowById(wid) /\ UNCHANGED others
SaveWorkflow == \E d \in Payloads : saveWorkflow(d) /\ UNCHANGED others
UpdateWorkflow ==
    \E wid \in KnownIds, d \in Payloads : updateWorkflow(wid, d) /\ UNCHANGED others
DeleteWorkflow == \E wid \in KnownIds : deleteWorkflow(wid) /\ UNCHANGED others
ExecuteWorkflow == \E wid \in KnownIds : executeWorkflow(wid) /\ UNCHANGED others
CreateModuleInstance ==
    \E t \in ModuleTypes : \E m \in ModuleDefinitions[t] :
        createModuleInstance(localStorage, t, [module_id |-> m, name |-> "inst"])
        /\ UNCHANGED others
UpdateModuleInstance ==
    \E t \in ModuleTypes, iid \in KnownInstanceIds, d \in InstanceInputs :
        updateModuleInstance(localStorage, t, iid, d) /\ UNCHANGED others
DeleteModuleInstance ==
    \E t \in ModuleTypes, iid \in KnownInstanceIds :
        deleteModuleInstance(localStorage, t, iid) /\ UNCHANGED others
ResetStorage == resetStorage /\ UNCHANGED others
Constructor == constructor /\ UNCHANGED others
ToggleApi == SetApiUp /\ UNCHANGED others

Next ==
    \/ GetWorkflows \/ GetWorkflowById \/ SaveWorkflow \/ UpdateWorkflow
    \/ DeleteWorkflow \/ ExecuteWorkflow
    \/ CreateModuleInstance \/ ResetStorage \/ ToggleApi

vars == <<svars, others>>

Spec == Init /\ [][Next]_vars

(* ------- the workflow methods with the API's availability fixed -------- *)
\* 'mock_workflows' as an earlier session can leave it: untouched, or holding the
\* workflow of one fallback saveWorkflow that resetStorage did not remove
\* (resetStorage removes the instances and the id counter only)
LeftoverStorages ==
    LET fresh == initializeStorage([k \in {} |-> <<>>])
        saved == WithWorkflows(fresh,
                    Append(getStoredWorkflows(fresh)["workflows"],
                           LocalDocument(toString(generateIdNum(InitialLastId)),
                                         PNodesOnly, 0)))
    IN  {fresh, saved}

SteadyInit ==
    /\ localStorage \in LeftoverStorages
    /\ lastId = getLastId(localStorage)
    /\ files = SeedFiles
    /\ apiUp \in BOOLEAN
    /\ clock = 0
    /\ call = NoCall
    /\ ret = NoRet
    /\ UiInit /\ UtilInit

SteadyNext ==
    \/ GetWorkflows \/ GetWorkflowById \/ SaveWorkflow \/ UpdateWorkflow
    \/ DeleteWorkflow

SpecSteady == SteadyInit /\ [][SteadyNext]_vars

(* ------------- the service with the file-backed API unreachable -------- *)
\* payloads as the editor builds them: no id field (WorkflowEditor.tsx lines 144-150)
EditorPayloads == {d \in Payloads : "id" \notin DOMAIN d}

LocalInit == Init /\ apiUp = FALSE

LocalSaveWorkflow == \E d \in EditorPayloads : saveWorkflow(d) /\ UNCHANGED others
LocalUpdateWorkflow ==
    \E wid \in KnownIds, d \in EditorPayloads : updateWorkflow(wid, d) /\ UNCHANGED others

LocalNext ==
    \/ LocalSaveWorkflow \/ LocalUpdateWorkflow \/ DeleteWorkflow \/ ExecuteWorkflow
    \/ CreateModuleInstance \/ ResetStorage

SpecLocal == LocalInit /\ [][LocalNext]_vars

(* ------------------------ the user interface --------------------------- *)
\* most nodes on the canvas, and most ids getId hands out in one page session
MaxNodes == 2
MaxNodeIds == 2

\* localStorage access throwing makes a call reject, unless the file-backed API
\* answers it first (mockApi.ts lines 54-56 and 66-68 run unguarded)
StorageThrows(wid) == faulty /\ ~(apiUp /\ (wid = <<>> \/ wid \in DOMAIN files))

\* a call that rejects in its localStorage part
rejected(op, wid, data) ==
    /\ clock < MaxClock
    /\ clock' = clock + 1
    /\ call' = [op |-> op, wid |-> wid, data |-> data]
    /\ ret' = Ret(FALSE, TRUE, TRUE, <<>>)
    /\ UNCHANGED <<localStorage, lastId, files, apiUp>>

\* a catch block that shows an alert dialog after console.error
CatchAlert(handler) == Outcome(handler, TRUE, TRUE, TRUE)
\* as CatchLogOnly, with an alert added
CatchLogOnlyWithAlert(handler) == Outcome(handler, TRUE, TRUE, TRUE)
\* a catch block that only calls console.error
CatchLogOnly(handler) == Outcome(handler, TRUE, FALSE, TRUE)
\* a handler whose call resolved; alerted tells whether it reports success by alert
Resolved(handler, alerted) == Outcome(handler, FALSE, alerted, FALSE)

\* getId(): the id built from the counter's value before the increment
getId(n) == <<"dndnode_">> \o toString(n)

\* workflow.nodes || [], workflow.edges || []
FieldOr(doc, f) == IF f \in DOMAIN doc THEN doc[f] ELSE <<>>

\* the payload saveWithName and onExecute build from reactFlowInstance.toObject()
workflowData(name) == [name |-> name, nodes |-> nodes, edges |-> edges]

\* the primed state of a component that is not mounted
EditorReset ==
    /\ nodes' = <<>>
    /\ edges' = <<>>
    /\ reactFlowInstance' = FALSE
    /\ showModuleModal' = FALSE
    /\ showTableModal' = FALSE
    /\ pendingNodeType' = "source"
    /\ pendingPosition' = [x |-> 0, y |-> 0]
    /\ modalItems' = <<>>
    /\ modalLoading' = FALSE

\* an open modal's overlay (fixed inset-0, z-50) covers the toolbar, the canvas and
\* the navigation bar
ModalClosed == ~showModuleModal /\ ~showTableModal

(* ----------------------------- App.tsx --------------------------------- *)
\* handleCreateNewWorkflow / handleEditWorkflow: the dashboard's buttons mount the
\* editor; its load effect runs once on mount
OpenEditor(wid) ==
    /\ currentView = "dashboard"
    /\ currentView' = "builder"
    /\ workflowId' = wid
    /\ EditorReset
    /\ loadsInFlight' = IF wid # <<>> THEN 1 ELSE 0
    /\ dash' = DashUnmounted
    /\ UNCHANGED <<svars, idCounter, pendingExecute, mm, ui, faulty, cvars, uvars>>

\* handleBackToDashboard: the editor unmounts, the dashboard mounts and loads.
\* What a load still in flight would set is set on the unmounted component.
CloseEditor ==
    /\ currentView = "builder"
    /\ ModalClosed
    /\ currentView' = "dashboard"
    /\ workflowId' = <<>>
    /\ EditorReset
    /\ loadsInFlight' = 0
    /\ dash' = DashUnmounted
    /\ UNCHANGED <<svars, idCounter, pendingExecute, mm, ui, faulty, cvars, uvars>>

\* the navigation bar's onClick: setCurrentView(item.key)
Navigate(view) ==
    /\ currentView # view
    /\ ModalClosed
    /\ currentView' = view
    /\ EditorReset
    /\ loadsInFlight' = 0
    /\ dash' = DashUnmounted
    /\ mm' = MmUnmounted
    /\ UNCHANGED <<svars, workflowId, idCounter, pendingExecute, ui, faulty, cvars, uvars>>

\* the page is loaded again: every module is evaluated anew, so the editor's id
\* is 0 again and the service is constructed over what localStorage holds
PageLoad ==
    /\ constructor
    /\ currentView' = "dashboard"
    /\ workflowId' = <<>>
    /\ idCounter' = 0
    /\ EditorReset
    /\ loadsInFlight' = 0
    /\ pendingExecute' = <<>>
    /\ dash' = DashUnmounted
    /\ mm' = MmUnmounted
    /\ UNCHANGED <<ui, faulty, cvars, uvars>>

(* ------------------------ WorkflowEditor.tsx --------------------------- *)
\* <ReactFlow onInit={setReactFlowInstance}>: the load effect depends on
\* reactFlowInstance and runs again
OnInit ==
    /\ currentView = "builder"
    /\ ~reactFlowInstance
    /\ reactFlowInstance' = TRUE
    /\ loadsInFlight' = IF workflowId # <<>> THEN loadsInFlight + 1 ELSE loadsInFlight
    /\ UNCHANGED <<svars, currentView, workflowId, nodes, edges, idCounter, showModuleModal,
                   showTableModal, pendingNodeType, pendingPosition, modalItems, modalLoading, pendingExecute,
                   dash, mm, ui, faulty, cvars, uvars>>

\* loadWorkflow of the load effect, from the answer of getWorkflowById on
LoadResponse ==
    /\ currentView = "builder"
    /\ loadsInFlight > 0
    /\ loadsInFlight' = loadsInFlight - 1
    /\ IF StorageThrows(workflowId)
       THEN rejected("getWorkflowById", workflowId, <<>>)
       ELSE getWorkflowById(workflowId)
    /\ IF ret'.threw
       THEN /\ ui' = CatchAlert("loadWorkflow")
            /\ UNCHANGED <<nodes, edges>>
       ELSE /\ ui' = Resolved("loadWorkflow", FALSE)
            /\ IF ret'.val # <<>>
               THEN /\ nodes' = FieldOr(ret'.val[1], "nodes")
                    /\ edges' = FieldOr(ret'.val[1], "edges")
               ELSE UNCHANGED <<nodes, edges>>
    /\ UNCHANGED <<currentView, workflowId, idCounter, reactFlowInstance, showModuleModal,
                   showTableModal, pendingNodeType, pendingPosition, modalItems, modalLoading, pendingExecute,
                   dash, mm, faulty, cvars, uvars>>

\* String.prototype.split('-') of a payload given as its pieces of text and
\* the '-' characters between them: the list of the parts between the dashes
RECURSIVE split(_)
split(type) ==
    IF \A k \in 1..Len(type) : type[k] # "-" THEN <<type>>
    ELSE LET k == CHOOSE k \in 1..Len(type) :
                     type[k] = "-" /\ \A m \in 1..(k - 1) : type[m] # "-"
         IN  <<SubSeq(type, 1, k - 1)>> \o split(SubSeq(type, k + 1, Len(type)))

\* the text of a part that is one piece or empty
TextOf(part) == IF part = <<>> THEN "" ELSE part[1]

\* as nodeTypeOf, taking the second element of the destructuring
subtypeOf(type) ==
    LET parts == split(type) IN IF Len(parts) > 1 THEN TextOf(parts[2]) ELSE ""

\* const [nodeType, subtype] = type.split('-')
nodeTypeOf(type) == TextOf(split(type)[1])

\* onDrop: a palette item with the given payload is dropped on the canvas at a
\* point that reactFlowInstance.project maps to the given position
OnDrop(type, position) ==
    /\ currentView = "builder"
    /\ reactFlowInstance
    /\ ModalClosed
    /\ IF type = <<>>
       THEN UNCHANGED <<showModuleModal, showTableModal, pendingNodeType, pendingPosition,
                        modalItems, modalLoading>>
       ELSE /\ pendingPosition' = position
            /\ IF nodeTypeOf(type) = "table"
               THEN /\ showTableModal' = TRUE
                    /\ UNCHANGED <<showModuleModal, pendingNodeType>>
               ELSE /\ showModuleModal' = TRUE
                    /\ pendingNodeType' = nodeTypeOf(type)
                    /\ UNCHANGED showTableModal
            /\ modalItems' = <<>>
            /\ modalLoading' = TRUE
    /\ UNCHANGED <<svars, currentView, workflowId, nodes, edges, idCounter, reactFlowInstance,
                   loadsInFlight, pendingExecute, dash, mm, ui, faulty, cvars, uvars>>

\* handleModuleSelect / handleTableSelect: the new node, appended
WithNewNode(nodeType, instance) ==
    Append(nodes, [id |-> getId(idCounter), type |-> nodeType,
                   position |-> pendingPosition, label |-> instance["name"]])

\* as hasWorkflowId, for an editor that always creates
hasWorkflowIdNever(wid) == FALSE

\* if (workflowId): the prop is a non-empty id, or undefined
hasWorkflowId(wid) == wid # <<>>

\* saveWithName(finalName), reached from onSave directly or through the name modal
OnSave ==
    /\ currentView = "builder"
    /\ ModalClosed
    /\ reactFlowInstance
    /\ IF hasWorkflowId(workflowId)
       THEN IF StorageThrows(workflowId)
            THEN rejected("updateWorkflow", workflowId, workflowData("A"))
            ELSE updateWorkflow(workflowId, workflowData("A"))
       ELSE IF StorageThrows(<<>>)
            THEN rejected("saveWorkflow", <<>>, workflowData("A"))
            ELSE saveWorkflow(workflowData("A"))
    /\ ui' = IF ret'.threw THEN CatchAlert("saveWithName") ELSE Resolved("saveWithName", TRUE)
    /\ UNCHANGED <<currentView, workflowId, idCounter, evars, loadsInFlight, pendingExecute,
                   dash, mm, faulty, cvars, uvars>>

\* onRestore: the Load button
OnRestore ==
    /\ currentView = "builder"
    /\ ModalClosed
    /\ IF StorageThrows(<<>>) THEN rejected("getWorkflows", <<>>, <<>>) ELSE getWorkflows
    /\ IF ret'.threw
       THEN /\ ui' = CatchAlert("onRestore")
            /\ UNCHANGED <<nodes, edges>>
       ELSE /\ ui' = Resolved("onRestore", TRUE)
            /\ IF Len(ret'.val) > 0
               THEN /\ nodes' = FieldOr(ret'.val[1], "nodes")
                    /\ edges' = FieldOr(ret'.val[1], "edges")
               ELSE UNCHANGED <<nodes, edges>>
    /\ UNCHANGED <<currentView, workflowId, idCounter, reactFlowInstance, loadsInFlight,
                   showModuleModal, showTableModal, pendingNodeType, pendingPosition, modalItems, modalLoading,
                   pendingExecute, dash, mm, faulty, cvars, uvars>>

\* as savedWorkflowId, with the id the editor was opened with
savedWorkflowIdOpened(savedWorkflow) == workflowId

\* savedWorkflow.id, the argument of executeWorkflow
savedWorkflowId(savedWorkflow) == savedWorkflow["id"]

\* onExecute up to its second await: an empty canvas is answered by an alert;
\* otherwise the canvas is saved as a new workflow
OnExecute ==
    /\ currentView = "builder"
    /\ ModalClosed
    /\ reactFlowInstance
    /\ pendingExecute = <<>>
    /\ IF Len(nodes) = 0
       THEN /\ ui' = Resolved("onExecute", TRUE)
            /\ UNCHANGED <<svars, pendingExecute>>
       ELSE /\ IF StorageThrows(<<>>)
               THEN rejected("saveWorkflow", <<>>, workflowData("Execution"))
               ELSE saveWorkflow(workflowData("Execution"))
            /\ IF ret'.threw
               THEN /\ ui' = CatchAlert("onExecute")
                    /\ UNCHANGED pendingExecute
               ELSE /\ ui' = Resolved("onExecute", FALSE)
                    /\ pendingExecute' = <<savedWorkflowId(ret'.val[1])>>
    /\ UNCHANGED <<currentView, workflowId, idCounter, evars, loadsInFlight, dash, mm, faulty, cvars, uvars>>

\* onExecute from its second await on: executeWorkflow(savedWorkflow.id)
OnExecuteRun ==
    /\ pendingExecute # <<>>
    /\ pendingExecute' = <<>>
    /\ IF StorageThrows(pendingExecute[1])
       THEN rejected("executeWorkflow", pendingExecute[1], <<>>)
       ELSE executeWorkflow(pendingExecute[1])
    /\ ui' = IF ret'.threw THEN CatchAlert("onExecute") ELSE Resolved("onExecute", TRUE)
    /\ UNCHANGED <<currentView, workflowId, idCounter, evars, loadsInFlight, dash, mm, faulty, cvars, uvars>>

(* --------------------- ModuleSelectionModal.tsx ------------------------ *)
\* the instances key of a node type (lines 36-39)
moduleType(nodeType) ==
    CASE nodeType = "source" -> "sources"
      [] nodeType = "transformation" -> "transformations"
      [] nodeType = "sink" -> "sinks"
      [] OTHER -> "tables"

\* fetchData, run when the modal opens
FetchData ==
    /\ showModuleModal
    /\ modalLoading
    /\ modalLoading' = FALSE
    /\ IF faulty
       THEN /\ ui' = CatchLogOnly("fetchData")
            /\ UNCHANGED modalItems
       ELSE /\ ui' = Resolved("fetchData", FALSE)
            /\ modalItems' = getStoredInstances(localStorage)[moduleType(pendingNodeType)]
    /\ UNCHANGED <<svars, currentView, workflowId, nodes, edges, idCounter, reactFlowInstance,
                   loadsInFlight, showModuleModal, showTableModal, pendingNodeType, pendingPosition,
                   pendingExecute, dash, mm, faulty, cvars, uvars>>

\* handleSelect of a listed instance whose definition is known, and with it the
\* editor's handleModuleSelect
HandleSelect(i) ==
    /\ showModuleModal
    /\ i \in 1..Len(modalItems)
    /\ modalItems[i]["module_id"] \in ModuleDefinitions[moduleType(pendingNodeType)]
    /\ Len(nodes) < MaxNodes
    /\ idCounter < MaxNodeIds
    /\ nodes' = WithNewNode(pendingNodeType, modalItems[i])
    /\ idCounter' = idCounter + 1
    /\ showModuleModal' = FALSE
    /\ UNCHANGED <<svars, currentView, workflowId, edges, reactFlowInstance, loadsInFlight,
                   showTableModal, pendingNodeType, pendingPosition, modalItems, modalLoading, pendingExecute,
                   dash, mm, ui, faulty, cvars, uvars>>

\* handleModalCancel / handleTableModalCancel
HandleModalCancel ==
    /\ showModuleModal \/ showTableModal
    /\ showModuleModal' = FALSE
    /\ showTableModal' = FALSE
    /\ UNCHANGED <<svars, currentView, workflowId, nodes, edges, idCounter, reactFlowInstance,
                   loadsInFlight, pendingNodeType, pendingPosition, modalItems, modalLoading, pendingExecute,
                   dash, mm, ui, faulty, cvars, uvars>>

(* -------------------- QuickTableCreationModal.tsx ---------------------- *)
\* getTableTypeConfig().moduleId of the temporary table type
TableModuleId == "temporary_table"

\* the tables of the modal's type
RECURSIVE FilterTables(_)
FilterTables(seq) ==
    IF seq = <<>> THEN <<>>
    ELSE IF Head(seq)["module_id"] = TableModuleId
         THEN <<Head(seq)>> \o FilterTables(Tail(seq))
         ELSE FilterTables(Tail(seq))

\* loadExistingTables, run when the modal opens
LoadExistingTables ==
    /\ showTableModal
    /\ modalLoading
    /\ modalLoading' = FALSE
    /\ IF faulty
       THEN /\ ui' = CatchLogOnly("loadExistingTables")
            /\ UNCHANGED modalItems
       ELSE /\ ui' = Resolved("loadExistingTables", FALSE)
            /\ modalItems' = FilterTables(getStoredInstances(localStorage)["tables"])
    /\ UNCHANGED <<svars, currentView, workflowId, nodes, edges, idCounter, reactFlowInstance,
                   loadsInFlight, showModuleModal, showTableModal, pendingNodeType, pendingPosition,
                   pendingExecute, dash, mm, faulty, cvars, uvars>>

\* handleCreateNew with a name entered: the instance is created and handed to the
\* editor's handleTableSelect
HandleCreateNew ==
    /\ showTableModal
    /\ Len(nodes) < MaxNodes
    /\ idCounter < MaxNodeIds
    /\ IF faulty
       THEN rejected("createModuleInstance", <<>>, [module_id |-> TableModuleId, name |-> "t"])
       ELSE createModuleInstance(localStorage, "tables",
                                 [module_id |-> TableModuleId, name |-> "t"])
    /\ IF ret'.threw
       THEN /\ ui' = CatchAlert("handleCreateNew")
            /\ UNCHANGED <<nodes, idCounter, showTableModal>>
       ELSE /\ ui' = Resolved("handleCreateNew", FALSE)
            /\ nodes' = WithNewNode("table", ret'.val[1])
            /\ idCounter' = idCounter + 1
            /\ showTableModal' = FALSE
    /\ UNCHANGED <<currentView, workflowId, edges, reactFlowInstance, loadsInFlight,
                   showModuleModal, pendingNodeType, pendingPosition, modalItems, modalLoading, pendingExecute,
                   dash, mm, faulty, cvars, uvars>>

\* handleSelectExisting of a listed table, and with it handleTableSelect
HandleSelectExisting(i) ==
    /\ showTableModal
    /\ i \in 1..Len(modalItems)
    /\ Len(nodes) < MaxNodes
    /\ idCounter < MaxNodeIds
    /\ nodes' = WithNewNode("table", modalItems[i])
    /\ idCounter' = idCounter + 1
    /\ showTableModal' = FALSE
    /\ UNCHANGED <<svars, currentView, workflowId, edges, reactFlowInstance, loadsInFlight,
                   showModuleModal, pendingNodeType, pendingPosition, modalItems, modalLoading, pendingExecute,
                   dash, mm, ui, faulty, cvars, uvars>>

(* ----------------------- WorkflowDashboard.tsx ------------------------- *)
\* the card loadWorkflows makes of a workflow
Card(workflow) ==
    [id |-> workflow["id"],
     status |-> IF "status" \in DOMAIN workflow THEN workflow["status"] ELSE "draft"]

\* loadWorkflows, run once when the dashboard mounts
LoadWorkflows ==
    /\ currentView = "dashboard"
    /\ dash.loading
    /\ IF StorageThrows(<<>>) THEN rejected("getWorkflows", <<>>, <<>>) ELSE getWorkflows
    /\ IF ret'.threw
       THEN /\ ui' = CatchLogOnly("loadWorkflows")
            /\ dash' = [dash EXCEPT !.loading = FALSE]
       ELSE /\ ui' = Resolved("loadWorkflows", FALSE)
            /\ dash' = [loading |-> FALSE,
                        workflows |-> [i \in 1..Len(ret'.val) |-> Card(ret'.val[i])]]
    /\ UNCHANGED <<currentView, idCounter, evars, loadsInFlight, workflowId, pendingExecute,
                   mm, faulty, cvars, uvars>>

\* handleRunWorkflow of a listed card, with the status its timer sets
HandleRunWorkflow(i) ==
    /\ currentView = "dashboard"
    /\ i \in 1..Len(dash.workflows)
    /\ LET wid == dash.workflows[i]["id"]
       IN  IF StorageThrows(wid)
           THEN rejected("executeWorkflow", wid, <<>>)
           ELSE executeWorkflow(wid)
    /\ IF ret'.threw
       THEN /\ ui' = CatchLogOnly("handleRunWorkflow")
            /\ dash' = [dash EXCEPT !.workflows[i]["status"] = "failed"]
       ELSE /\ ui' = Resolved("handleRunWorkflow", FALSE)
            /\ dash' = [dash EXCEPT !.workflows[i]["status"] =
                                        IF ret'.success THEN "completed" ELSE "failed"]
    /\ UNCHANGED <<currentView, idCounter, evars, loadsInFlight, workflowId, pendingExecute,
                   mm, faulty, cvars, uvars>>

(* ------------------------ ModuleManagement.tsx ------------------------- *)
\* fetchModuleInstances, run when the view mounts
FetchModuleInstances ==
    /\ currentView = "modules"
    /\ mm.loading
    /\ IF faulty
       THEN /\ ui' = CatchLogOnly("fetchModuleInstances")
            /\ mm' = [mm EXCEPT !.loading = FALSE]
       ELSE /\ ui' = Resolved("fetchModuleInstances", FALSE)
            /\ mm' = [mm EXCEPT !.loading = FALSE,
                                !.instances = getStoredInstances(localStorage)]
    /\ UNCHANGED <<svars, currentView, idCounter, evars, loadsInFlight, workflowId,
                   pendingExecute, dash, faulty, cvars, uvars>>

\* handleCreateInstance
HandleCreateInstance ==
    /\ currentView = "modules"
    /\ ~mm.showForm
    /\ mm' = [mm EXCEPT !.showForm = TRUE, !.editing = <<>>]
    /\ UNCHANGED <<svars, currentView, idCounter, evars, loadsInFlight, workflowId,
                   pendingExecute, dash, ui, faulty, cvars, uvars>>

\* handleEditInstance of a listed instance
HandleEditInstance(i) ==
    /\ currentView = "modules"
    /\ ~mm.showForm
    /\ i \in 1..Len(mm.instances[mm.activeTab])
    /\ mm' = [mm EXCEPT !.showForm = TRUE,
                        !.editing = <<mm.instances[mm.activeTab][i]["id"]>>]
    /\ UNCHANGED <<svars, currentView, idCounter, evars, loadsInFlight, workflowId,
                   pendingExecute, dash, ui, faulty, cvars, uvars>>

\* what the view shows after a successful change: fetchModuleInstances' answer
Refreshed == getStoredInstances(localStorage')

\* handleFormSubmit(data), but for the variables of the form that called it
handleFormSubmit(data) ==
    /\ currentView = "modules"
    /\ mm.showForm
    /\ IF faulty
       THEN rejected(IF mm.editing # <<>> THEN "updateModuleInstance"
                     ELSE "createModuleInstance",
                     IF mm.editing # <<>> THEN mm.editing[1] ELSE <<>>, data)
       ELSE IF mm.editing # <<>>
            THEN updateModuleInstance(localStorage, mm.activeTab, mm.editing[1], data)
            ELSE createModuleInstance(localStorage, mm.activeTab, data)
    /\ IF ret'.threw
       THEN /\ ui' = CatchAlert("handleFormSubmit")
            /\ UNCHANGED mm
       ELSE /\ ui' = Resolved("handleFormSubmit", FALSE)
            /\ mm' = [mm EXCEPT !.showForm = FALSE, !.editing = <<>>,
                                !.instances = Refreshed]
    /\ UNCHANGED <<currentView, idCounter, evars, loadsInFlight, workflowId, pendingExecute,
                   dash, faulty, cvars>>

\* handleFormSubmit(data)
HandleFormSubmit(data) == handleFormSubmit(data) /\ UNCHANGED uvars

\* handleDeleteInstance(instanceId) of a listed instance, confirmed
HandleDeleteInstance(i) ==
    /\ currentView = "modules"
    /\ i \in 1..Len(mm.instances[mm.activeTab])
    /\ LET iid == mm.instances[mm.activeTab][i]["id"]
       IN  IF faulty
           THEN rejected("deleteModuleInstance", iid, <<>>)
           ELSE deleteModuleInstance(localStorage, mm.activeTab, iid)
    /\ IF ret'.threw
       THEN /\ ui' = CatchAlert("handleDeleteInstance")
            /\ UNCHANGED mm
       ELSE /\ ui' = Resolved("handleDeleteInstance", FALSE)
            /\ mm' = [mm EXCEPT !.instances = Refreshed]
    /\ UNCHANGED <<currentView, idCounter, evars, loadsInFlight, workflowId, pendingExecute,
                   dash, faulty, cvars, uvars>>

\* what localStorage holds stops being readable: getItem throws, or JSON.parse
\* does on the stored text
SetFaulty ==
    /\ ~faulty
    /\ faulty' = TRUE
    /\ UNCHANGED <<svars, currentView, idCounter, evars, loadsInFlight, workflowId,
                   pendingExecute, dash, mm, ui, cvars, uvars>>

(* --------------------- the editor across page loads -------------------- *)
OpenNew == OpenEditor(<<>>)
OpenExisting == \E i \in 1..Len(dash.workflows) : OpenEditor(dash.workflows[i]["id"])
\* payloads of the palette (`${node.type}-${node.subtype}`), and the empty one
DropPayloads ==
    {<<>>, <<"source", "-", "database">>, <<"sink", "-", "api">>,
     <<"table", "-", "temporary">>}

\* projected drop positions
Positions == {[x |-> 10, y |-> 20], [x |-> 30, y |-> 40]}

\* a source or a table of the palette, dropped at one point
Drop ==
    \E type \in {<<"source", "-", "database">>, <<"table", "-", "temporary">>} :
        OnDrop(type, [x |-> 10, y |-> 20])
Select == \E i \in 1..MaxInstances : HandleSelect(i)
SelectExisting == \E i \in 1..MaxInstances : HandleSelectExisting(i)

EditorNext ==
    \/ LoadWorkflows \/ OpenNew \/ OpenExisting \/ OnInit \/ LoadResponse
    \/ Drop \/ FetchData \/ Select \/ HandleModalCancel
    \/ LoadExistingTables \/ HandleCreateNew \/ SelectExisting
    \/ OnSave \/ OnRestore \/ CloseEditor \/ PageLoad

SpecEditor == Init /\ [][EditorNext]_vars

(* ------------------- drops on the canvas of one editor ----------------- *)
DropAnywhere == \E type \in DropPayloads, position \in Positions : OnDrop(type, position)

CanvasNext ==
    \/ OpenNew \/ OnInit \/ DropAnywhere \/ FetchData \/ Select \/ HandleModalCancel
    \/ LoadExistingTables \/ HandleCreateNew \/ SelectExisting \/ CloseEditor

SpecCanvas == Init /\ [][CanvasNext]_vars

(* ---------------- the load effect of one opened editor ----------------- *)
\* most edges on the canvas
MaxEdges == 2

\* reactflow's addEdge: the connection as a new edge, unless the canvas already
\* has an edge with its source and target
addEdge(params, eds) ==
    IF \E i \in 1..Len(eds) :
          eds[i]["source"] = params.source /\ eds[i]["target"] = params.target
    THEN eds
    ELSE Append(eds, [id |-> <<"reactflow__edge-">> \o params.source \o <<"-">>
                               \o params.target,
                      source |-> params.source, target |-> params.target])

\* onConnect: the user draws a connection between two nodes of the canvas
OnConnect ==
    /\ currentView = "builder"
    /\ reactFlowInstance
    /\ ModalClosed
    /\ Len(edges) < MaxEdges
    /\ \E a, b \in 1..Len(nodes) :
          /\ a # b
          /\ edges' = addEdge([source |-> nodes[a]["id"], target |-> nodes[b]["id"]], edges)
    /\ UNCHANGED <<svars, currentView, workflowId, nodes, idCounter, reactFlowInstance,
                   loadsInFlight, showModuleModal, showTableModal, pendingNodeType,
                   pendingPosition, modalItems, modalLoading, pendingExecute, dash, mm, ui,
                   faulty, cvars, uvars>>

LoadNext ==
    \/ LoadWorkflows \/ OpenNew \/ OpenExisting \/ OnInit \/ LoadResponse
    \/ Drop \/ FetchData \/ Select \/ HandleModalCancel \/ OnConnect \/ CloseEditor

SpecLoad == Init /\ [][LoadNext]_vars

(* ------------------ the handlers with calls that reject ---------------- *)
RunWorkflow == \E i \in 1..MaxFiles + MaxStored : HandleRunWorkflow(i)
GoTo == \E view \in {"dashboard", "modules"} : Navigate(view)
EditInstance == \E i \in 1..MaxInstances : HandleEditInstance(i)
FormSubmit == \E d \in InstanceInputs : HandleFormSubmit(d)
DeleteInstance == \E i \in 1..MaxInstances : HandleDeleteInstance(i)

UiNext ==
    \/ LoadWorkflows \/ RunWorkflow \/ OpenNew \/ OpenExisting \/ GoTo
    \/ OnInit \/ LoadResponse \/ OnSave \/ OnRestore \/ OnExecute \/ OnExecuteRun
    \/ Drop \/ FetchData \/ HandleModalCancel \/ LoadExistingTables \/ HandleCreateNew
    \/ CloseEditor
    \/ FetchModuleInstances \/ HandleCreateInstance \/ EditInstance \/ FormSubmit
    \/ DeleteInstance
    \/ SetFaulty

SpecUI == Init /\ [][UiNext]_vars

(* ------------- calls of one service started concurrently --------------- *)
\* most calls in flight at once
MaxInflight == 2

\* a started call: its arguments, what localStorage held when it started, and
\* whether another call was in flight at some moment of its life
Started(op, t, wid, data) ==
    [op |-> op, t |-> t, wid |-> wid, data |-> data, snap |-> localStorage,
     overlap |-> inflight # <<>>]

StoredInstanceIds ==
    LET inst == getStoredInstances(localStorage)
    IN  UNION {{inst[t][i]["id"] : i \in 1..Len(inst[t])} : t \in ModuleTypes}

StoredWorkflowIds == {Stored[i]["id"] : i \in 1..Len(Stored)}

\* the calls the callers make: on the sources, and on the stored workflows
ConcurrentCalls ==
    {Started("createModuleInstance", "sources", <<>>,
             [module_id |-> "postgres_source", name |-> "inst"])}
    \cup {Started("updateModuleInstance", "sources", iid,
                  [module_id |-> "postgres_source", name |-> "renamed"]) :
            iid \in StoredInstanceIds}
    \cup {Started("deleteModuleInstance", "sources", iid, <<>>) : iid \in StoredInstanceIds}
    \cup {Started("saveWorkflow", "", <<>>, PFull)}
    \cup {Started("updateWorkflow", "", wid, PNodesOnly) : wid \in StoredWorkflowIds}
    \cup {Started("deleteWorkflow", "", wid, <<>>) : wid \in StoredWorkflowIds}
    \cup {Started("executeWorkflow", "", wid, <<>>) : wid \in StoredWorkflowIds}

\* an async method is called: it runs up to its first await (mockApi.ts line 111,
\* 150, 178, 254, 291, 322, 343), having read nothing yet
Start(c) ==
    /\ Len(inflight) < MaxInflight
    /\ clock + Len(inflight) < MaxClock
    /\ inflight' = Append([i \in 1..Len(inflight) |-> [inflight[i] EXCEPT !.overlap = TRUE]], c)
    /\ UNCHANGED <<svars, currentView, workflowId, idCounter, evars, loadsInFlight,
                   pendingExecute, dash, mm, ui, faulty, settled, uvars>>

\* the id a settled call is about: the one it was given, or the one it generated
SettledId(c, r) ==
    IF c.op \in {"createModuleInstance", "saveWorkflow"} /\ ~r.threw THEN r.val[1]["id"]
    ELSE c.wid

\* a call's awaits are over (for a workflow method, the request to the file-backed
\* API has failed): the rest of the method runs to its return without a break
Settle(i) ==
    /\ i \in 1..Len(inflight)
    /\ ~apiUp
    /\ LET c == inflight[i]
       IN  /\ CASE c.op = "createModuleInstance" ->
                     createModuleInstance(c.snap, c.t, c.data)
                [] c.op = "updateModuleInstance" ->
                     updateModuleInstance(c.snap, c.t, c.wid, c.data)
                [] c.op = "deleteModuleInstance" ->
                     deleteModuleInstance(c.snap, c.t, c.wid)
                [] OTHER ->
                     /\ clock < MaxClock
                     /\ clock' = clock + 1
                     /\ call' = [op |-> c.op, wid |-> c.wid, data |-> c.data]
                     /\ UNCHANGED apiUp
                     /\ CASE c.op = "saveWorkflow" ->
                               /\ Len(Stored) < MaxStored
                               /\ saveWorkflowLocal(c.snap, c.data, clock + 1)
                          [] c.op = "updateWorkflow" ->
                               updateWorkflowLocal(c.snap, c.wid, c.data, clock + 1)
                          [] c.op = "deleteWorkflow" ->
                               deleteWorkflowLocal(c.snap, c.wid)
                          [] OTHER ->
                               \E statusLucky \in BOOLEAN, shouldSucceed \in BOOLEAN :
                                   executeWorkflowLocal(c.snap, c.wid, statusLucky,
                                                        shouldSucceed)
           /\ settled' = Append(settled, [op |-> c.op, id |-> SettledId(c, ret'),
                                          data |-> c.data, threw |-> ret'.threw,
                                          overlap |-> c.overlap \/ Len(inflight) > 1])
    /\ inflight' = Splice(inflight, i)
    /\ UNCHANGED <<currentView, workflowId, idCounter, evars, loadsInFlight, pendingExecute,
                   dash, mm, ui, faulty, uvars>>

StartCall == \E c \in ConcurrentCalls : Start(c)
SettleCall == \E i \in 1..MaxInflight : Settle(i)

ConcInit == Init /\ apiUp = FALSE

ConcNext == StartCall \/ SettleCall

SpecConc == ConcInit /\ [][ConcNext]_vars

(* ------------------- the service's not-found paths --------------------- *)
\* every definition id, of whatever type, and one that no type defines
ModuleIdInputs == UNION {ModuleDefinitions[t] : t \in ModuleTypes} \cup {"no_such_module"}

CrudCreateModuleInstance ==
    \E t \in ModuleTypes, m \in ModuleIdInputs :
        createModuleInstance(localStorage, t, [module_id |-> m, name |-> "inst"])
        /\ UNCHANGED others

CrudNext ==
    \/ CrudCreateModuleInstance \/ UpdateModuleInstance \/ DeleteModuleInstance
    \/ SaveWorkflow \/ UpdateWorkflow \/ DeleteWorkflow

SpecCrud == Init /\ [][CrudNext]_vars

(* ---------------- configuration validation (part_006) ------------------ *)
\* most parameters in a call of validateModuleConfiguration
MaxParams == 2

\* JavaScript values: a kind and, for strings, the characters
Undefined == [k |-> "undefined", v |-> 0]
Null == [k |-> "null", v |-> 0]
Str(chars) == [k |-> "string", v |-> chars]
Num(n) == [k |-> "number", v |-> n]
Bool(b) == [k |-> "boolean", v |-> b]

\* a parameter: the fields of ModuleParameter that validation reads; an absent
\* validation field is a name outside the DOMAIN of validation
Param(name, label, type, required, validation) ==
    [name |-> name, label |-> label, type |-> type, required |-> required,
     options |-> <<>>, validation |-> validation]

NoValidation == [f \in {} |-> 0]

\* configuration[param.name]
ValueOf(configuration, name) ==
    IF name \in DOMAIN configuration THEN configuration[name] ELSE Undefined

\* as IsBlank, taking the number 0 and false for blank as well (!value)
IsBlankFalsy(value) ==
    \/ value.k \in {"undefined", "null"}
    \/ value.k = "string" /\ value.v = <<>>
    \/ value.k = "number" /\ value.v = 0
    \/ value.k = "boolean" /\ value.v = FALSE

\* value === undefined || value === null || value === ''
IsBlank(value) ==
    \/ value.k \in {"undefined", "null"}
    \/ value.k = "string" /\ value.v = <<>>

IsSpace(c) == c = " "

\* Number(value): [nan, n]. A string is trimmed; an empty one is 0, one of decimal
\* digits its value, any other NaN
NumberOf(value) ==
    CASE value.k = "number" -> [nan |-> FALSE, n |-> value.v]
      [] value.k = "boolean" -> [nan |-> FALSE, n |-> IF value.v THEN 1 ELSE 0]
      [] value.k = "null" -> [nan |-> FALSE, n |-> 0]
      [] value.k = "string" ->
           LET trimmed == SelectSeq(value.v, LAMBDA c : ~IsSpace(c))
               inner == \E i \in 1..Len(value.v) : \E j \in 1..Len(value.v) :
                           i < j /\ ~IsSpace(value.v[i]) /\ ~IsSpace(value.v[j])
                           /\ \E m \in (i + 1)..(j - 1) : IsSpace(value.v[m])
           IN  IF trimmed = <<>> THEN [nan |-> FALSE, n |-> 0]
               ELSE IF ~inner /\ \A i \in 1..Len(trimmed) : \E d \in 1..10 : Digits[d] = trimmed[i]
                    THEN [nan |-> FALSE, n |-> ParseInt(trimmed)]
                    ELSE [nan |-> TRUE, n |-> 0]
      [] OTHER -> [nan |-> TRUE, n |-> 0]

\* /^[^\s@]+@[^\s@]+\.[^\s@]+$/.test(email)
isValidEmail(email) ==
    /\ \A i \in 1..Len(email) : ~IsSpace(email[i])
    /\ \E i \in 1..Len(email) : \E j \in 1..Len(email) :
         /\ email[i] = "@" /\ email[j] = "."
         /\ 1 < i /\ i + 1 < j /\ j < Len(email)
         /\ \A m \in 1..Len(email) : email[m] = "@" => m = i

\* errors[param.name] = message
SetError(acc, name, message) == [acc EXCEPT !.errors = Spread(@, [n \in {name} |-> message])]
SetWarning(acc, name, message) ==
    [acc EXCEPT !.warnings = Spread(@, [n \in {name} |-> message])]

HasMin(param) == "min" \in DOMAIN param.validation
HasMax(param) == "max" \in DOMAIN param.validation

\* case 'number'
CheckNumber(param, value, acc) ==
    IF NumberOf(value).nan
    THEN SetError(acc, param.name, <<param.label, " must be a valid number">>)
    ELSE LET numValue == NumberOf(value).n
             a1 == IF HasMin(param) /\ numValue < param.validation["min"]
                   THEN SetError(acc, param.name,
                                 <<param.label, " must be at least ", param.validation["min"]>>)
                   ELSE acc
         IN  IF HasMax(param) /\ numValue > param.validation["max"]
             THEN SetError(a1, param.name,
                           <<param.label, " must be at most ", param.validation["max"]>>)
             ELSE a1

\* case 'text', case 'password' (no parameter modelled here has a pattern)
CheckText(param, value, acc) ==
    IF value.k # "string"
    THEN SetError(acc, param.name, <<param.label, " must be a string">>)
    ELSE LET a1 == IF HasMin(param) /\ Len(value.v) < param.validation["min"]
                   THEN SetError(acc, param.name,
                                 <<param.label, " must be at least ",
                                   param.validation["min"], " characters">>)
                   ELSE acc
         IN  IF HasMax(param) /\ Len(value.v) > param.validation["max"]
             THEN SetError(a1, param.name,
                           <<param.label, " must be at most ",
                             param.validation["max"], " characters">>)
             ELSE a1

\* case 'select'
CheckSelect(param, value, acc) ==
    IF param.options # <<>> /\ ~\E i \in 1..Len(param.options) : param.options[i] = value
    THEN SetError(acc, param.name, <<param.label, " must be one of: ", param.options>>)
    ELSE acc

\* case 'boolean'
CheckBoolean(param, value, acc) ==
    IF value.k # "boolean"
    THEN SetWarning(acc, param.name, <<param.label, " should be a boolean value">>)
    ELSE acc

\* the custom validation switch; 'email' is the custom type modelled
CheckCustom(param, value, acc) ==
    IF /\ "custom" \in DOMAIN param.validation
       /\ param.validation["custom"] = "email"
       /\ value.k = "string"
       /\ ~isValidEmail(value.v)
    THEN SetError(acc, param.name, <<param.label, " must be a valid email address">>)
    ELSE acc

\* the body of parameters.forEach for one parameter
ValidateParam(param, configuration, acc) ==
    LET value == ValueOf(configuration, param.name)
    IN  IF param.required /\ IsBlank(value)
        THEN SetError(acc, param.name, <<param.label, " is required">>)
        ELSE IF ~param.required /\ IsBlank(value)
        THEN acc
        ELSE LET typed == CASE param.type = "number" -> CheckNumber(param, value, acc)
                            [] param.type \in {"text", "password"} ->
                                 CheckText(param, value, acc)
                            [] param.type = "select" -> CheckSelect(param, value, acc)
                            [] param.type = "boolean" -> CheckBoolean(param, value, acc)
                            [] OTHER -> acc
             IN  CheckCustom(param, value, typed)

RECURSIVE ForEachParam(_, _, _)
ForEachParam(parameters, configuration, acc) ==
    IF parameters = <<>> THEN acc
    ELSE ForEachParam(Tail(parameters), configuration,
                      ValidateParam(Head(parameters), configuration, acc))

\* validateModuleConfiguration(parameters, configuration); warnings is <<>> for
\* undefined
validateModuleConfiguration(parameters, configuration) ==
    LET none == [n \in {} |-> <<>>]
        acc == ForEachParam(parameters, configuration, [errors |-> none, warnings |-> none])
    IN  [isValid |-> DOMAIN acc.errors = {},
         errors |-> acc.errors,
         warnings |-> IF DOMAIN acc.warnings # {} THEN <<acc.warnings>> ELSE <<>>]

\* parameters as module definitions declare them
Range1To10 == [f \in {"min", "max"} |-> IF f = "min" THEN 1 ELSE 10]
ParamSet ==
    {Param("p", "P", "number", TRUE, Range1To10),
     Param("p", "P", "number", FALSE, Range1To10),
     Param("p", "P", "text", TRUE, [f \in {"min"} |-> 2]),
     Param("q", "Q", "number", TRUE, NoValidation),
     Param("q", "Q", "text", FALSE, [f \in {"custom"} |-> "email"]),
     Param("q", "Q", "boolean", FALSE, NoValidation),
     Param("q", "Q", "number", FALSE,
           [f \in {"min", "max", "custom"} |->
               CASE f = "min" -> 1 [] f = "max" -> 10 [] OTHER -> "email"]),
     [Param("q", "Q", "select", TRUE, NoValidation) EXCEPT !.options = <<Str(<<"5">>)>>]}

\* values a configuration form can hold
ValueSet ==
    {Undefined, Null, Str(<<>>), Str(<<"5">>), Str(<<"a", "b">>),
     Str(<<"a", "@", "b", ".", "c">>), Num(0), Num(5), Num(20), Bool(FALSE)}

RECURSIVE ParamLists(_)
ParamLists(n) ==
    IF n = 0 THEN {<<>>}
    ELSE ParamLists(n - 1) \cup
         {Append(l, p) : l \in {x \in ParamLists(n - 1) : Len(x) = n - 1}, p \in ParamSet}

ValidateArgs ==
    {[fn |-> "validateModuleConfiguration", parameters |-> ps, configuration |-> c] :
        ps \in ParamLists(MaxParams) \ {<<>>},
        c \in UNION {[names -> ValueSet] : names \in SUBSET {"p", "q"}}}

ValidateInit ==
    /\ ServiceInit /\ apiUp = FALSE
    /\ UiInit
    /\ args \in ValidateArgs
    /\ result = <<>>

Validate ==
    /\ result = <<>>
    /\ args.fn = "validateModuleConfiguration"
    /\ result' = <<validateModuleConfiguration(args.parameters, args.configuration)>>
    /\ UNCHANGED <<svars, currentView, workflowId, idCounter, evars, loadsInFlight,
                   pendingExecute, dash, mm, ui, faulty, cvars, args>>

SpecValidate == ValidateInit /\ [][Validate]_vars

(* ------------------- testModuleConfiguration (routing) ------------------ *)
\* number of words a module id is put together from
MaxWords == 2

UpperCase == <<"A", "C", "I", "L", "M", "P", "Q", "S", "V", "Y">>
LowerCase == <<"a", "c", "i", "l", "m", "p", "q", "s", "v", "y">>

\* String.prototype.toLowerCase, one character at a time
toLowerCaseIdentity(s) == s

toLowerCase(s) ==
    [i \in 1..Len(s) |->
        IF \E k \in 1..Len(UpperCase) : UpperCase[k] = s[i]
        THEN LowerCase[CHOOSE k \in 1..Len(UpperCase) : UpperCase[k] = s[i]]
        ELSE s[i]]

\* String.prototype.includes
includes(s, word) ==
    \E i \in 0..(Len(s) - Len(word)) : SubSeq(s, i + 1, i + Len(word)) = word

W_database == <<"d", "a", "t", "a", "b", "a", "s", "e">>
W_mysql == <<"m", "y", "s", "q", "l">>
W_postgresql == <<"p", "o", "s", "t", "g", "r", "e", "s", "q", "l">>
W_sqlite == <<"s", "q", "l", "i", "t", "e">>
W_api == <<"a", "p", "i">>
W_rest == <<"r", "e", "s", "t">>
W_http == <<"h", "t", "t", "p">>
W_file == <<"f", "i", "l", "e">>
W_csv == <<"c", "s", "v">>
W_json == <<"j", "s", "o", "n">>
W_s3 == <<"s", "3">>
W_ftp == <<"f", "t", "p">>

\* the backend's answer to a test request: the fetch throws, or a response
\* arrives with response.ok and the body's success flag
BackendAnswers ==
    {[thrown |-> TRUE, ok |-> FALSE, success |-> FALSE]}
    \cup {[thrown |-> FALSE, ok |-> o, success |-> s] : o, s \in BOOLEAN}

TestResult(test, url, answer, okMessage, failMessage, thrownMessage) ==
    IF answer.thrown
    THEN [test |-> test, requests |-> <<url>>, success |-> FALSE,
          message |-> thrownMessage]
    ELSE [test |-> test, requests |-> <<url>>,
          success |-> answer.ok /\ answer.success,
          message |-> IF answer.ok THEN okMessage ELSE failMessage]

testDatabaseConnection(configuration, answer) ==
    TestResult("database", "/database/test-connection", answer,
               "Connection successful", "Connection failed",
               "Failed to test connection: ")

testAPIConnection(configuration, answer) ==
    TestResult("api", "/api/test-endpoint", answer,
               "API endpoint accessible", "API endpoint failed",
               "Failed to test API endpoint: ")

testFileSource(configuration, answer) ==
    TestResult("file", "/files/test-source", answer,
               "File source accessible", "File source failed",
               "Failed to test file source: ")

testModuleConfiguration(moduleId, configuration, answer) ==
    LET moduleIdLower == toLowerCase(moduleId) IN
    IF \/ includes(moduleIdLower, W_database)
       \/ includes(moduleIdLower, W_mysql)
       \/ includes(moduleIdLower, W_postgresql)
       \/ includes(moduleIdLower, W_sqlite)
    THEN testDatabaseConnection(configuration, answer)
    ELSE IF \/ includes(moduleIdLower, W_api)
            \/ includes(moduleIdLower, W_rest)
            \/ includes(moduleIdLower, W_http)
    THEN testAPIConnection(configuration, answer)
    ELSE IF \/ includes(moduleIdLower, W_file)
            \/ includes(moduleIdLower, W_csv)
            \/ includes(moduleIdLower, W_json)
            \/ includes(moduleIdLower, W_s3)
            \/ includes(moduleIdLower, W_ftp)
    THEN testFileSource(configuration, answer)
    ELSE [test |-> "generic", requests |-> <<>>, success |-> TRUE,
          message |-> "Configuration appears valid"]

\* the words module ids are put together from: the routed words in several
\* spellings, pieces that only form a routed word across a boundary, and
\* words that route nowhere
IdWords ==
    {W_database, W_sqlite, W_postgresql, W_rest, W_http, W_file, W_json, W_ftp,
     <<"M", "y", "S", "Q", "L">>, <<"A", "P", "I">>, <<"a", "p">>, <<"i">>,
     <<"C", "s", "v">>, <<"S", "3">>, <<"p", "o", "s", "t", "g", "r", "e", "s">>,
     <<"_">>, <<"k", "a", "f", "k", "a">>}

RECURSIVE ModuleIds(_)
ModuleIds(n) ==
    IF n = 0 THEN {<<>>}
    ELSE ModuleIds(n - 1) \cup {a \o w : a \in ModuleIds(n - 1), w \in IdWords}

TestConfigArgs ==
    {[fn |-> "testModuleConfiguration", moduleId |-> m, configuration |-> c] :
        m \in ModuleIds(MaxWords), c \in {<<>>, [host |-> "h"]}}

TestConfigInit ==
    /\ ServiceInit /\ apiUp = FALSE
    /\ UiInit
    /\ args \in TestConfigArgs
    /\ result = <<>>

TestModuleConfiguration ==
    /\ result = <<>>
    /\ args.fn = "testModuleConfiguration"
    /\ \E answer \in BackendAnswers :
          result' = <<testModuleConfiguration(args.moduleId, args.configuration, answer)>>
    /\ UNCHANGED <<svars, currentView, workflowId, idCounter, evars, loadsInFlight,
                   pendingExecute, dash, mm, ui, faulty, cvars, args>>

SpecTestConfig == TestConfigInit /\ [][TestModuleConfiguration]_vars

(* ----------------------- ModuleInstanceForm.tsx ------------------------ *)
\* as trim, leaving the text as typed
trimNothing(s) == s

\* String.prototype.trim
RECURSIVE trim(_)
trim(s) ==
    IF s = <<>> THEN s
    ELSE IF IsSpace(Head(s)) THEN trim(Tail(s))
    ELSE IF IsSpace(s[Len(s)]) THEN trim(SubSeq(s, 1, Len(s) - 1))
    ELSE s

\* !value of a configuration value
Not(value) ==
    \/ value.k \in {"undefined", "null"}
    \/ value.k = "string" /\ value.v = <<>>
    \/ value.k = "number" /\ value.v = 0
    \/ value.k = "boolean" /\ value.v = FALSE

W_sql == <<"s", "q", "l">>

\* validateForm's test for the database fields, on a lower-cased id
ValidatesDatabase(moduleId) == includes(moduleId, W_database) \/ includes(moduleId, W_sql)
\* validateForm's test for the API field
ValidatesApi(moduleId) == includes(moduleId, W_api) \/ includes(moduleId, W_rest)

DatabaseFields ==
    <<"database_type", "hostname", "port", "database_name", "username", "password">>

DatabaseMessage(field) ==
    CASE field = "database_type" -> "Database type is required"
      [] field = "hostname" -> "Hostname is required"
      [] field = "port" -> "Port is required"
      [] field = "database_name" -> "Database name is required"
      [] field = "username" -> "Username is required"
      [] field = "password" -> "Password is required"

\* newErrors with errs added to it
WithErrors(newErrors, errs) == Spread(newErrors, errs)

\* validateForm: newErrors. selectedModule is <<>> when no definition has the
\* selected id, else <<[id, parameters]>> with the id as its characters
validateForm(name, selectedModuleId, selectedModule, configuration) ==
    LET e1 == IF trim(name) = <<>> THEN [f \in {"name"} |-> "Name is required"]
              ELSE [f \in {} |-> ""]
        e2 == IF selectedModuleId = ""
              THEN WithErrors(e1, [f \in {"module_id"} |-> "Please select a module type"])
              ELSE e1
    IN  IF selectedModule = <<>> THEN e2
        ELSE LET def == selectedModule[1]
                 params == def.parameters
                 missing == {i \in 1..Len(params) :
                                params[i].required /\ Not(ValueOf(configuration, params[i].name))}
                 e3 == WithErrors(e2, [f \in {params[i].name : i \in missing} |->
                                          "parameter is required"])
                 moduleId == toLowerCase(def.id)
                 e4 == IF ValidatesDatabase(moduleId)
                       THEN WithErrors(e3,
                              [f \in {DatabaseFields[i] : i \in
                                        {k \in 1..Len(DatabaseFields) :
                                            Not(ValueOf(configuration, DatabaseFields[k]))}} |->
                                  DatabaseMessage(f)])
                       ELSE e3
             IN  IF ValidatesApi(moduleId) /\ Not(ValueOf(configuration, "host"))
                 THEN WithErrors(e4, [f \in {"host"} |-> "Host is required"])
                 ELSE e4

\* the characters of the definition ids
Characters(id) ==
    CASE id = "postgres_source" ->
           <<"p", "o", "s", "t", "g", "r", "e", "s", "_", "s", "o", "u", "r", "c", "e">>
      [] id = "api_sink" -> <<"a", "p", "i", "_", "s", "i", "n", "k">>
      [] id = "filter" -> <<"f", "i", "l", "t", "e", "r">>
      [] id = "temporary_table" ->
           <<"t", "e", "m", "p", "o", "r", "a", "r", "y", "_", "t", "a", "b", "l", "e">>
      [] OTHER -> <<>>

\* moduleDefinitions.find((def) => def.id === selectedModuleId), over the
\* definitions of the active tab; each definition declares one required text
\* parameter
selectedModuleOf(tab, selectedModuleId) ==
    IF selectedModuleId \in ModuleDefinitions[tab]
    THEN <<[id |-> Characters(selectedModuleId),
            parameters |-> <<Param("p", "P", "text", TRUE, NoValidation)>>]>>
    ELSE <<>>

\* what the user has typed into the name field
FormNames == {<<" ">>, <<" ", "a", " ">>}

\* what the configuration panel holds
FormConfigurations ==
    {[f \in {"p"} |-> Str(<<>>)],
     [f \in {"p"} |-> Str(<<"h">>)],
     [f \in {"p", "host"} |-> Str(<<"h">>)]}

\* the tabs of ModuleManagement: setActiveTab(tab.key)
SetActiveTab ==
    /\ currentView = "modules"
    /\ ~mm.showForm
    /\ \E tab \in {"sources", "sinks"} : mm' = [mm EXCEPT !.activeTab = tab]
    /\ UNCHANGED <<svars, currentView, idCounter, evars, loadsInFlight, workflowId,
                   pendingExecute, dash, ui, faulty, cvars, uvars>>

\* the user fills in the open form: the name field, the module picked among the
\* definitions of the active tab, and the configuration panel
FormInput ==
    /\ currentView = "modules"
    /\ mm.showForm
    /\ \E name \in FormNames, selectedModuleId \in {""} \cup ModuleDefinitions[mm.activeTab],
          configuration \in FormConfigurations :
          args' = [fn |-> "handleSubmit", name |-> name,
                   selectedModuleId |-> selectedModuleId,
                   configuration |-> configuration]
    /\ result' = <<>>
    /\ UNCHANGED <<svars, currentView, idCounter, evars, loadsInFlight, workflowId,
                   pendingExecute, dash, mm, ui, faulty, cvars>>

\* handleSubmit of the open form with what it holds, and with it the onSubmit
\* it calls, ModuleManagement's handleFormSubmit
HandleSubmit ==
    /\ currentView = "modules"
    /\ mm.showForm
    /\ args # <<>>
    /\ args.fn = "handleSubmit"
    /\ LET errors == validateForm(args.name, args.selectedModuleId,
                                  selectedModuleOf(mm.activeTab, args.selectedModuleId),
                                  args.configuration)
           data == [module_id |-> args.selectedModuleId, name |-> trim(args.name),
                    configuration |-> args.configuration]
       IN  IF DOMAIN errors # {}
           THEN /\ result' = <<[errors |-> errors, onSubmit |-> <<>>]>>
                /\ UNCHANGED <<svars, currentView, idCounter, evars, loadsInFlight,
                               workflowId, pendingExecute, dash, mm, ui, faulty, cvars>>
           ELSE /\ result' = <<[errors |-> errors, onSubmit |-> <<data>>]>>
                /\ handleFormSubmit(data)
    /\ UNCHANGED args

\* the navigation bar, which an open form's overlay covers
FormGoTo == ~mm.showForm /\ GoTo

FormNext ==
    \/ FormGoTo \/ FetchModuleInstances \/ SetActiveTab \/ HandleCreateInstance
    \/ EditInstance \/ FormInput \/ HandleSubmit \/ SetFaulty

SpecForm == Init /\ [][FormNext]_vars

(* ------------- ModuleConfigurationForm: the panel rendered -------------- *)
W_sql_server == <<"s", "q", "l", "_", "s", "e", "r", "v", "e", "r">>
W_webhook == <<"w", "e", "b", "h", "o", "o", "k">>
W_excel == <<"e", "x", "c", "e", "l">>

\* ModuleConfigurationForm.getConfigurationPanel: the component it returns for a
\* definition's id and type
getConfigurationPanel(id, type) ==
    LET moduleId == toLowerCase(id)
        typeLower == toLowerCase(type)
    IN  IF \/ includes(moduleId, W_database) \/ includes(moduleId, W_mysql)
           \/ includes(moduleId, W_postgresql) \/ includes(moduleId, W_sqlite)
           \/ includes(moduleId, W_sql_server) \/ includes(typeLower, W_database)
        THEN "TypeSpecificConfigurationForm"
        ELSE IF \/ includes(moduleId, W_api) \/ includes(moduleId, W_rest)
                \/ includes(moduleId, W_http) \/ includes(moduleId, W_webhook)
                \/ includes(typeLower, W_api)
        THEN "TypeSpecificConfigurationForm"
        ELSE IF \/ includes(moduleId, W_file) \/ includes(moduleId, W_csv)
                \/ includes(moduleId, W_json) \/ includes(moduleId, W_excel)
                \/ includes(moduleId, W_s3) \/ includes(moduleId, W_ftp)
                \/ includes(typeLower, W_file)
        THEN "FileConfigurationPanel"
        ELSE "renderGenericConfiguration"

\* TypeSpecificConfigurationForm.getModuleTypeFromId
getModuleTypeFromId(id) ==
    LET moduleId == toLowerCase(id)
    IN  IF includes(moduleId, W_database) \/ includes(moduleId, W_sql) THEN "database"
        ELSE IF includes(moduleId, W_api) \/ includes(moduleId, W_rest) THEN "api"
        ELSE "generic"

\* the fields ModuleConfigurationForm ends up showing: those of
\* renderDatabaseConfiguration ("database") or of renderAPIConfiguration ("api")
\* inside TypeSpecificConfigurationForm, the file panel, or the definition's own
\* parameters ("generic")
renderedPanel(id, type) ==
    LET panel == getConfigurationPanel(id, type)
    IN  IF panel = "TypeSpecificConfigurationForm" THEN getModuleTypeFromId(id)
        ELSE IF panel = "FileConfigurationPanel" THEN "file"
        ELSE "generic"

\* the words definition ids are put together from
PanelWords ==
    {W_database, W_mysql, <<"m", "s", "s", "q", "l">>, <<"S", "Q", "L">>, W_api, W_rest,
     W_http, W_csv, <<"_">>, <<"k", "a", "f", "k", "a">>}

RECURSIVE PanelIds(_)
PanelIds(n) ==
    IF n = 0 THEN {}
    ELSE PanelWords \cup {a \o w : a \in PanelIds(n - 1), w \in PanelWords}

\* the type fields of definitions
PanelTypes ==
    {W_database, <<"A", "P", "I">>, W_file,
     <<"s", "o", "u", "r", "c", "e">>}

PanelInit ==
    /\ ServiceInit /\ apiUp = FALSE
    /\ UiInit
    /\ args \in {[fn |-> "ModuleInstanceForm", id |-> id, type |-> type] :
                    id \in PanelIds(MaxWords), type \in PanelTypes}
    /\ result = <<>>

\* the form with the definition selected, a name typed and nothing configured:
\* what it renders, and what validateForm records on submit
RenderAndValidate ==
    /\ result = <<>>
    /\ args.fn = "ModuleInstanceForm"
    /\ result' = <<[panel |-> renderedPanel(args.id, args.type),
                    errors |-> validateForm(<<"a">>, "selected",
                                            <<[id |-> args.id, parameters |-> <<>>]>>,
                                            [f \in {} |-> Undefined])]>>
    /\ UNCHANGED <<svars, currentView, workflowId, idCounter, evars, loadsInFlight,
                   pendingExecute, dash, mm, ui, faulty, cvars, args>>

SpecPanel == PanelInit /\ [][RenderAndValidate]_vars

(* ------------------------------ claims --------------------------------- *)
IdsOf(seq) == {seq[i]["id"] : i \in 1..Len(seq)}

\* each edge's source and target are ids of nodes of the same document
EdgesReferToNodes(doc) ==
    \A i \in 1..Len(doc["edges"]) :
        /\ doc["edges"][i]["source"] \in IdsOf(doc["nodes"])
        /\ doc["edges"][i]["target"] \in IdsOf(doc["nodes"])

AllDocuments == {files[w] : w \in DOMAIN files} \cup {Stored[i] : i \in 1..Len(Stored)}

WorkflowOps == {"getWorkflows", "getWorkflowById", "saveWorkflow", "updateWorkflow",
                "deleteWorkflow", "executeWorkflow"}

\* C1: with the file-backed API unreachable, no two workflows stored under
\* 'mock_workflows' have the same id.
C1_StoredWorkflowIdsUnique ==
    \A i \in 1..Len(Stored) : \A j \in 1..Len(Stored) :
        i # j => Stored[i]["id"] # Stored[j]["id"]

\* C3: in every persisted workflow document each edge's source and target are ids
\* of nodes of the same document.
C3_EveryDocumentHasEdgeIntegrity == \A doc \in AllDocuments : EdgesReferToNodes(doc)

\* C3 as amended: the service stores what it is given. After a saveWorkflow or
\* updateWorkflow whose payload carries both nodes and edges, the stored document's
\* edges refer to its nodes exactly when the payload's edges refer to the payload's nodes.
C3_IntegrityFollowsPayload ==
    (/\ call["op"] \in {"saveWorkflow", "updateWorkflow"}
     /\ ~ret["threw"]
     /\ {"nodes", "edges"} \subseteq DOMAIN call["data"])
    => /\ ret["val"][1] \in AllDocuments
       /\ EdgesReferToNodes(ret["val"][1]) <=> EdgesReferToNodes(call["data"])

C3_Witness ==
    /\ call["op"] = "updateWorkflow"
    /\ ~ret["threw"] /\ ~ret["served"]
    /\ {"nodes", "edges"} \subseteq DOMAIN call["data"]
    /\ ~EdgesReferToNodes(call["data"])

\* C4: the workflow stored after updateWorkflow(workflowId, data) still has
\* id = workflowId, in the file-backed path and in the localStorage fallback.
C4_UpdateKeepsId ==
    (call["op"] = "updateWorkflow" /\ ~ret["threw"])
    => /\ ret["val"][1]["id"] = call["wid"]
       /\ IF ret["served"] THEN call["wid"] \in DOMAIN files
                           ELSE call["wid"] \in IdsOf(Stored)

\* C5: POST /mock-api/workflows writes to an id that had no file before the request
\* and leaves every previously stored document unchanged.
C5_PostNeverOverwrites ==
    [][(clock' # clock /\ call'["op"] = "saveWorkflow" /\ ret'["served"])
        => /\ ret'["val"][1]["id"] \notin DOMAIN files
           /\ DOMAIN files' = (DOMAIN files) \cup {ret'["val"][1]["id"]}
           /\ \A w \in DOMAIN files : files'[w] = files[w]]_vars

\* a POST whose body carried the id of an existing file has been answered
C5_Witness ==
    /\ call["op"] = "saveWorkflow" /\ ret["served"]
    /\ "id" \in DOMAIN call["data"]
    /\ call["data"]["id"] \in DOMAIN files
    /\ ret["val"][1]["id"] # call["data"]["id"]

\* C6: after resetStorage the stored module instances, the id counter and the stored
\* workflows equal those of a freshly initialised service.
C6_ResetRestoresInitialState ==
    call["op"] = "resetStorage"
    => /\ getStoredInstances(localStorage) = SeedInstances
       /\ lastId = InitialLastId
       /\ getLastId(localStorage) = InitialLastId
       /\ Stored = SeedWorkflows

\* C7: after executeWorkflow(id) on an existing workflow, success is true exactly
\* when the stored execution_status is 'success', and executionId is present exactly
\* when success is true.
C7_ResultAgreesWithStoredStatus ==
    (call["op"] = "executeWorkflow")
    => /\ ret["execId"] <=> ret["success"]
       /\ ret["served"] =>
             (ret["success"] <=> files[call["wid"]]["execution_status"] = "success")
       /\ (~ret["served"] /\ call["wid"] \in IdsOf(Stored)) =>
             (ret["success"] <=>
                Stored[FindIndex(Stored, call["wid"])]["execution_status"] = "success")

\* the file-backed request of the call answered with an ok response
RequestOk(c) ==
    apiUp /\ (c["op"] \in {"getWorkflows", "saveWorkflow"} \/ c["wid"] \in DOMAIN files)

\* C8: a workflow method reads or writes localStorage (and the id counter) only when
\* its file-backed request threw or was answered non-ok.
C8_LocalStorageOnlyAsFallback ==
    [][(clock' # clock /\ call'["op"] \in WorkflowOps)
        => /\ (ret'["lsRead"] \/ localStorage' # localStorage \/ lastId' # lastId)
                => ~RequestOk(call')
           /\ RequestOk(call') => ret'["served"]]_vars

\* a save answered by the file-backed API while localStorage differs from the files
C8_Witness ==
    /\ call["op"] = "saveWorkflow" /\ ret["served"]
    /\ Len(Stored) # Cardinality(DOMAIN files)

\* C2: all nodes on the canvas have pairwise distinct ids.
C2_CanvasNodeIdsUnique ==
    \A i \in 1..Len(nodes) : \A j \in 1..Len(nodes) :
        i # j => nodes[i]["id"] # nodes[j]["id"]

AlertingHandlers ==
    {"loadWorkflow", "saveWithName", "onRestore", "onExecute", "handleCreateNew",
     "handleFormSubmit", "handleDeleteInstance"}

LogOnlyHandlers ==
    {"loadWorkflows", "handleRunWorkflow", "fetchModuleInstances", "fetchData",
     "loadExistingTables"}

\* C9 (as stated): whenever the API call of a UI handler has failed, the handler has
\* caught the failure and shown it to the user: by an alert dialog, or, read
\* generously, by the failed badge handleRunWorkflow puts on the workflow's card.
C9_EveryFailureSurfaced ==
    ui.failed => /\ ~ui.uncaught
                 /\ ui.alerted \/ ui.handler = "handleRunWorkflow"

\* C9 (amended): every failed API call of a UI handler is caught and logged to the
\* console, a handler's record says failed exactly when its call rejected, and an
\* alert dialog is shown exactly by the editor's load-by-id, Save, Load and Execute,
\* module management's submit and delete and the quick-table modal's create. The
\* list loads of the dashboard, module management and the two modals show nothing,
\* and the dashboard's Run only marks the workflow's card failed.
C9_FailuresCaughtAlertWhereCoded ==
    /\ [](ui.failed => /\ ~ui.uncaught
                       /\ ui.logged
                       /\ ui.handler \in AlertingHandlers \cup LogOnlyHandlers
                       /\ ui.alerted <=> ui.handler \in AlertingHandlers)
    /\ [][clock' # clock =>
            /\ ui'.failed <=> ret'.threw
            /\ ui'.failed /\ ui'.handler = "handleRunWorkflow" =>
                 \E i \in 1..Len(dash'.workflows) :
                     /\ dash'.workflows[i]["id"] = call'.wid
                     /\ dash'.workflows[i]["status"] = "failed"]_vars

\* the dashboard's list load has failed and nothing but the console shows it
C9_Witness ==
    /\ ui.handler = "loadWorkflows"
    /\ ui.failed /\ ~ui.alerted
    /\ ret.threw

RECURSIVE SelectSettled(_, _)
SelectSettled(seq, ops) ==
    IF seq = <<>> THEN <<>>
    ELSE IF Head(seq).op \in ops /\ ~Head(seq).threw
         THEN <<Head(seq)>> \o SelectSettled(Tail(seq), ops)
         ELSE SelectSettled(Tail(seq), ops)

\* the calls that created something, and those that deleted something
SettledCreates == SelectSettled(settled, {"createModuleInstance", "saveWorkflow"})

\* position k of settled is followed by a successful delete of the same id
DeletedAfter(k) ==
    \E j \in (k + 1)..Len(settled) :
        /\ settled[j].op \in {"deleteModuleInstance", "deleteWorkflow"}
        /\ ~settled[j].threw
        /\ settled[j].id = settled[k].id
        /\ (settled[j].op = "deleteWorkflow") =
              (settled[k].op \in {"saveWorkflow", "updateWorkflow", "executeWorkflow"})

\* position k of settled is followed by another successful write of the same item
WrittenAfter(k) ==
    \E j \in (k + 1)..Len(settled) :
        /\ ~settled[j].threw
        /\ settled[j].id = settled[k].id
        /\ settled[j].op \in {"updateModuleInstance", "updateWorkflow"}

\* C10: however calls of one service that were started concurrently interleave, no
\* update is lost: what a returned create, save, update or delete did is in
\* localStorage until a later call on the same item undoes it, and the ids of all
\* returned creates and saves are pairwise distinct.
C10_ConcurrentCallsSerialised ==
    LET inst == getStoredInstances(localStorage)["sources"]
    IN  /\ \A k \in 1..Len(settled) :
             ~settled[k].threw /\ ~DeletedAfter(k) =>
               /\ settled[k].op = "createModuleInstance" =>
                    settled[k].id \in StoredInstanceIds
               /\ settled[k].op = "saveWorkflow" => settled[k].id \in StoredWorkflowIds
               /\ settled[k].op = "updateModuleInstance" /\ ~WrittenAfter(k) =>
                    \E i \in 1..Len(inst) :
                        /\ inst[i]["id"] = settled[k].id
                        /\ inst[i]["name"] = settled[k].data["name"]
               /\ settled[k].op = "updateWorkflow" /\ ~WrittenAfter(k) =>
                    \E i \in 1..Len(Stored) :
                        /\ Stored[i]["id"] = settled[k].id
                        /\ Stored[i]["nodes"] = settled[k].data["nodes"]
        /\ \A k \in 1..Len(settled) :
             ~settled[k].threw =>
               /\ settled[k].op = "deleteModuleInstance" =>
                    settled[k].id \notin StoredInstanceIds
               /\ settled[k].op = "deleteWorkflow" => settled[k].id \notin StoredWorkflowIds
        /\ \A i \in 1..Len(SettledCreates) : \A j \in 1..Len(SettledCreates) :
             i # j => SettledCreates[i].id # SettledCreates[j].id

\* two creates that were in flight together have both returned
C10_Witness ==
    \E i \in 1..Len(settled) : \E j \in 1..Len(settled) :
        /\ i # j
        /\ settled[i].op = "createModuleInstance" /\ settled[i].overlap /\ ~settled[i].threw
        /\ settled[j].op = "createModuleInstance" /\ settled[j].overlap /\ ~settled[j].threw

\* C11: createModuleInstance(moduleType, data) throws exactly when data.module_id is
\* not the id of a definition of moduleType, and then the stored instances and the
\* id counter are unchanged; otherwise exactly one new instance, the returned one, is
\* appended under moduleType and no other type's list changes.
C11_CreateValidatesModuleId ==
    [][(clock' # clock /\ call'["op"] = "createModuleInstance")
        => LET t == call'["t"]
               before == getStoredInstances(localStorage)
               after == getStoredInstances(localStorage')
           IN  IF call'["data"]["module_id"] \notin ModuleDefinitions[t]
               THEN /\ ret'["threw"]
                    /\ after = before
                    /\ lastId' = lastId
                    /\ getLastId(localStorage') = getLastId(localStorage)
               ELSE /\ ~ret'["threw"]
                    /\ after[t] = Append(before[t], ret'["val"][1])
                    /\ ret'["val"][1]["module_id"] = call'["data"]["module_id"]
                    /\ ret'["val"][1]["name"] = call'["data"]["name"]
                    /\ \A u \in ModuleTypes \ {t} : after[u] = before[u]]_vars

\* a create was refused although another module type defines the module id
C11_Witness ==
    /\ call["op"] = "createModuleInstance"
    /\ ret["threw"]
    /\ \E u \in ModuleTypes : call["data"]["module_id"] \in ModuleDefinitions[u]

\* C12: updateModuleInstance and deleteModuleInstance throw when no instance with
\* the given id is stored under the given module type, updateWorkflow and
\* deleteWorkflow throw in the localStorage fallback when no stored workflow has the
\* id, and a call that throws leaves localStorage, the id counter and the files as
\* they were; a call that finds its item does not throw.
C12_NotFoundChangesNothing ==
    [][(clock' # clock)
        => /\ call'["op"] \in {"updateModuleInstance", "deleteModuleInstance"} =>
                (ret'["threw"] <=>
                    call'["wid"] \notin IdsOf(getStoredInstances(localStorage)[call'["t"]]))
           /\ (call'["op"] \in {"updateWorkflow", "deleteWorkflow"} /\ ~RequestOk(call')) =>
                (ret'["threw"] <=> call'["wid"] \notin IdsOf(Stored))
           /\ (/\ call'["op"] \in {"updateModuleInstance", "deleteModuleInstance",
                                   "updateWorkflow", "deleteWorkflow"}
               /\ ret'["threw"]) =>
                /\ localStorage' = localStorage
                /\ lastId' = lastId
                /\ files' = files]_vars

\* an update was refused for an id that is stored under another module type
C12_Witness ==
    /\ call["op"] = "updateModuleInstance"
    /\ ret["threw"]
    /\ \E u \in ModuleTypes : call["wid"] \in IdsOf(getStoredInstances(localStorage)[u])

\* the parameter at position i is the only one of its name
UniqueName(ps, i) == \A j \in 1..Len(ps) : j # i => ps[j].name # ps[i].name

Blank(v) == v \in {Undefined, Null, Str(<<>>)}

OutOfRange(param, v) ==
    /\ ~NumberOf(v).nan
    /\ \/ HasMin(param) /\ NumberOf(v).n < param.validation["min"]
       \/ HasMax(param) /\ NumberOf(v).n > param.validation["max"]

\* what both readings of C13 say of isValid and of blank values: isValid is true
\* exactly when errors is empty, whatever the warnings; a required parameter with a
\* blank value has exactly the error '<label> is required', which no other value
\* yields; a parameter that is not required has no error for a blank value
ValidationOfBlanks(ps, cfg, r) ==
    /\ r.isValid <=> DOMAIN r.errors = {}
    /\ \A i \in 1..Len(ps) :
         UniqueName(ps, i) =>
           LET v == ValueOf(cfg, ps[i].name)
               required == <<ps[i].label, " is required">>
           IN  /\ (ps[i].required /\ Blank(v)) =>
                     ps[i].name \in DOMAIN r.errors /\ r.errors[ps[i].name] = required
               /\ (~ps[i].required /\ Blank(v)) => ps[i].name \notin DOMAIN r.errors
               /\ (ps[i].name \in DOMAIN r.errors /\ r.errors[ps[i].name] = required)
                     => ps[i].required /\ Blank(v)

\* C13 (as stated): besides the above, a number parameter with validation.min/max
\* has an error exactly when its numeric value is below min or above max.
C13_ValidationAsStated ==
    (result # <<>> /\ args.fn = "validateModuleConfiguration") =>
      LET ps == args.parameters
          cfg == args.configuration
          r == result[1]
      IN  /\ ValidationOfBlanks(ps, cfg, r)
          /\ \A i \in 1..Len(ps) :
               (/\ UniqueName(ps, i)
                /\ ps[i].type = "number"
                /\ HasMin(ps[i]) \/ HasMax(ps[i])
                /\ ~Blank(ValueOf(cfg, ps[i].name)))
               => (ps[i].name \in DOMAIN r.errors
                     <=> OutOfRange(ps[i], ValueOf(cfg, ps[i].name)))

\* C13 (amended): isValid is true exactly when errors is empty; a required parameter
\* with a blank value has exactly the error '<label> is required' and a parameter
\* that is not required has none; a number parameter with validation.min/max and a
\* value that is not blank has an error exactly when Number(value) is NaN, or is
\* below min or above max, or the value is a string that the parameter's custom
\* email validation rejects.
C13_ValidationWithNaN ==
    (result # <<>> /\ args.fn = "validateModuleConfiguration") =>
      LET ps == args.parameters
          cfg == args.configuration
          r == result[1]
      IN  /\ ValidationOfBlanks(ps, cfg, r)
          /\ \A i \in 1..Len(ps) :
               LET v == ValueOf(cfg, ps[i].name)
               IN  (/\ UniqueName(ps, i)
                    /\ ps[i].type = "number"
                    /\ HasMin(ps[i]) \/ HasMax(ps[i])
                    /\ ~Blank(v))
                   => (ps[i].name \in DOMAIN r.errors
                         <=> \/ NumberOf(v).nan
                             \/ OutOfRange(ps[i], v)
                             \/ /\ "custom" \in DOMAIN ps[i].validation
                                /\ v.k = "string"
                                /\ ~isValidEmail(v.v))

\* a number parameter with a range was validated against a value that is no number,
\* and another parameter's value only drew a warning
C13_Witness ==
    /\ result # <<>>
    /\ args.fn = "validateModuleConfiguration"
    /\ result[1].warnings # <<>>
    /\ \E i \in 1..Len(args.parameters) :
         /\ args.parameters[i].type = "number"
         /\ HasMin(args.parameters[i])
         /\ UniqueName(args.parameters, i)
         /\ NumberOf(ValueOf(args.configuration, args.parameters[i].name)).nan
         /\ ~Blank(ValueOf(args.configuration, args.parameters[i].name))
         /\ args.parameters[i].name \in DOMAIN result[1].errors

\* the same letter in either case
SameLetter(a, b) ==
    \/ a = b
    \/ \E k \in 1..Len(UpperCase) : {a, b} = {UpperCase[k], LowerCase[k]}

\* the id contains the word, whatever the case of its letters
Mentions(id, word) ==
    \E i \in 0..(Len(id) - Len(word)) :
        \A j \in 1..Len(word) : SameLetter(id[i + j], word[j])

MentionsAny(id, words) == \E w \in words : Mentions(id, w)

DatabaseWords == {W_database, W_mysql, W_postgresql, W_sqlite}
ApiWords == {W_api, W_rest, W_http}
FileWords == {W_file, W_csv, W_json, W_s3, W_ftp}

\* C14: testModuleConfiguration routes by module id, case-insensitively and
\* with precedence: an id containing 'database', 'mysql', 'postgresql' or
\* 'sqlite' goes to the database test; otherwise one containing 'api', 'rest'
\* or 'http' goes to the API test; otherwise one containing 'file', 'csv',
\* 'json', 's3' or 'ftp' goes to the file test; any other id returns success
\* 'Configuration appears valid' without issuing a request.
C14_RoutesByModuleId ==
    (result # <<>> /\ args.fn = "testModuleConfiguration") =>
        LET r == result[1]
            id == args.moduleId
        IN  IF MentionsAny(id, DatabaseWords)
            THEN r.test = "database" /\ r.requests = <<"/database/test-connection">>
            ELSE IF MentionsAny(id, ApiWords)
            THEN r.test = "api" /\ r.requests = <<"/api/test-endpoint">>
            ELSE IF MentionsAny(id, FileWords)
            THEN r.test = "file" /\ r.requests = <<"/files/test-source">>
            ELSE /\ r.test = "generic"
                 /\ r.requests = <<>>
                 /\ r.success
                 /\ r.message = "Configuration appears valid"

\* a mixed-case id naming both a database and an API word was routed to the
\* database test
C14_Witness ==
    /\ result # <<>>
    /\ args.fn = "testModuleConfiguration"
    /\ args.moduleId = <<"M", "y", "S", "Q", "L", "A", "P", "I">>
    /\ result[1].test = "database"

\* C15: with the API's availability unchanged, a getWorkflowById(id) that follows
\* a successfully resolved deleteWorkflow(id) returns null, for every id,
\* seeded ids included.
C15_DeleteIsDurable ==
    [][(/\ call["op"] = "deleteWorkflow" /\ ~ret["threw"]
        /\ clock' # clock
        /\ call'["op"] = "getWorkflowById"
        /\ call'["wid"] = call["wid"])
       => ret'["val"] = <<>>]_vars

\* the fields of the payload that the claim of C16 compares
RoundTripFields == {"name", "nodes", "edges", "viewport"}

\* C16: with the API's availability unchanged, after saveWorkflow(d) resolved to
\* workflow w, a getWorkflowById(w.id) that follows returns a workflow with w's
\* id and the name, nodes, edges and viewport d supplied, and a getWorkflows
\* that follows lists exactly one workflow with id w.id.
C16_SaveGetRoundTrip ==
    [][(/\ call["op"] = "saveWorkflow" /\ ~ret["threw"]
        /\ clock' # clock)
       => LET w == ret["val"][1]
              d == call["data"]
          IN  /\ (call'["op"] = "getWorkflowById" /\ call'["wid"] = w["id"])
                 => /\ ret'["val"] # <<>>
                    /\ ret'["val"][1]["id"] = w["id"]
                    /\ \A f \in RoundTripFields \cap DOMAIN d :
                          ret'["val"][1][f] = d[f]
              /\ call'["op"] = "getWorkflows"
                 => Cardinality({i \in 1..Len(ret'["val"]) :
                                    ret'["val"][i]["id"] = w["id"]}) = 1]_vars

PersistedCount == Cardinality(DOMAIN files) + Len(Stored)

\* C18: in an editor session opened with a workflowId every Save calls
\* updateWorkflow(workflowId, ...) and never creates a workflow, so the number of
\* persisted workflows is unchanged; in a session opened without one every
\* successful Save calls saveWorkflow and adds one persisted workflow.
C18_SaveTargetsRightWorkflow ==
    [][(clock' # clock /\ ui'.handler = "saveWithName")
       => /\ clock' = clock + 1
          /\ call'.data.nodes = nodes /\ call'.data.edges = edges
          /\ IF workflowId # <<>>
             THEN /\ call'.op = "updateWorkflow"
                  /\ call'.wid = workflowId
                  /\ PersistedCount' = PersistedCount
                  /\ DOMAIN files' = DOMAIN files
                  /\ IdsOf(Stored') = IdsOf(Stored)
             ELSE /\ call'.op = "saveWorkflow"
                  /\ IF ret'.threw THEN PersistedCount' = PersistedCount
                                   ELSE PersistedCount' = PersistedCount + 1
      ]_vars

\* a session opened without a workflowId has saved twice, and two workflows
\* were added to the seeded one
C18_Witness ==
    /\ workflowId = <<>>
    /\ ui.handler = "saveWithName"
    /\ call.op = "saveWorkflow" /\ ~ret.threw
    /\ Len(Stored) = Len(SeedWorkflows) + 2

\* the node a step appended to the canvas
AddedNode == nodes'[Len(nodes')]

LoadArrives ==
    /\ clock' # clock
    /\ ui'.handler = "loadWorkflow"
    /\ ~ret'.threw /\ ret'.val # <<>>

\* seq is what a load put on the canvas, with more appended to it
AddedTo(loaded, seq) ==
    /\ loaded # <<>>
    /\ Len(seq) > Len(loaded)
    /\ SubSeq(seq, 1, Len(loaded)) = loaded

\* C20: opening the editor with a workflowId issues one getWorkflowById request
\* (no further request is issued while that editor stays open), and once a load
\* response has populated the canvas, nodes and edges added after it are not
\* replaced by a load response that arrives later for the same opening.
C20_LoadIsSingleShot ==
    [][(currentView = "builder" /\ currentView' = "builder")
       => /\ loadsInFlight' <= loadsInFlight
          /\ (LoadArrives /\ AddedTo(FieldOr(ret'.val[1], "nodes"), nodes)) => nodes' = nodes
          /\ (LoadArrives /\ AddedTo(FieldOr(ret'.val[1], "edges"), edges)) => edges' = edges
      ]_vars

\* the second part of C20 by itself
C20_EditsSurviveLoads ==
    [][(currentView = "builder" /\ currentView' = "builder")
       => /\ (LoadArrives /\ AddedTo(FieldOr(ret'.val[1], "nodes"), nodes)) => nodes' = nodes
          /\ (LoadArrives /\ AddedTo(FieldOr(ret'.val[1], "edges"), edges)) => edges' = edges
      ]_vars


\* a run of n spaces
RECURSIVE Spaces(_)
Spaces(n) == IF n = 0 THEN <<>> ELSE <<" ">> \o Spaces(n - 1)

\* short is long without the spaces around it
WithoutOuterSpaces(short, long) ==
    /\ short # <<>> => short[1] # " " /\ short[Len(short)] # " "
    /\ \E i, j \in 0..Len(long) : long = Spaces(i) \o short \o Spaces(j)

\* C21: a submit of the module-instance form calls onSubmit exactly when
\* validateForm recorded no error, and then the name typed is not blank, a module is
\* selected and the name handed over is the typed one without the spaces around
\* it; onSubmit is ModuleManagement's handleFormSubmit, which makes one create or
\* update call. When the call succeeds the instance list is the reloaded one, the
\* form is closed and editingInstance is null; when it fails an alert is shown and
\* the form stays open on the same editingInstance. A submit that validation
\* stops makes no call and leaves module management as it was.
C21_SubmitOutcome ==
    [][(result' # <<>> /\ args' # <<>> /\ args'.fn = "handleSubmit"
        /\ (result' # result \/ (clock' # clock /\ ui'.handler = "handleFormSubmit")))
        => LET r == result'[1]
               called == r.onSubmit # <<>>
           IN  /\ called <=> DOMAIN r.errors = {}
               /\ called =>
                    /\ \E i \in 1..Len(args.name) : args.name[i] # " "
                    /\ args.selectedModuleId # ""
                    /\ r.onSubmit[1].module_id = args.selectedModuleId
                    /\ WithoutOuterSpaces(r.onSubmit[1].name, args.name)
                    /\ clock' = clock + 1
                    /\ call'.op = IF mm.editing # <<>> THEN "updateModuleInstance"
                                  ELSE "createModuleInstance"
                    /\ call'.data = r.onSubmit[1]
                    /\ ui'.handler = "handleFormSubmit"
                    /\ ui'.alerted <=> ret'.threw
                    /\ IF ret'.threw
                       THEN mm'.showForm /\ mm'.editing = mm.editing /\ mm' = mm
                       ELSE /\ ~mm'.showForm
                            /\ mm'.editing = <<>>
                            /\ mm'.instances = getStoredInstances(localStorage')
               /\ ~called => mm' = mm /\ clock' = clock /\ ui' = ui]_vars

\* a name typed with spaces around it was created, and the form is closed
C21_Witness ==
    /\ result # <<>> /\ args # <<>> /\ args.fn = "handleSubmit"
    /\ args.name = <<" ", "a", " ">>
    /\ result[1].onSubmit # <<>>
    /\ result[1].onSubmit[1].name = <<"a">>
    /\ ui.handler = "handleFormSubmit" /\ ~ui.failed
    /\ ~mm.showForm /\ mm.editing = <<>>
    /\ call.op = "createModuleInstance" /\ call.data = result[1].onSubmit[1]
    /\ ~ret.threw
    /\ mm.instances = getStoredInstances(localStorage)

\* a submit whose create or update call failed: the alert, the form still open
C21_WitnessFailed ==
    /\ result # <<>> /\ args # <<>> /\ args.fn = "handleSubmit"
    /\ result[1].onSubmit # <<>>
    /\ ui.handler = "handleFormSubmit" /\ ui.failed /\ ui.alerted
    /\ mm.showForm

\* a submit that validation stopped
C21_WitnessInvalid ==
    /\ result # <<>> /\ args # <<>> /\ args.fn = "handleSubmit"
    /\ result[1].onSubmit = <<>>
    /\ "name" \in DOMAIN result[1].errors
    /\ mm.showForm


\* C22: validateForm enforces the six database fields exactly when the panel
\* rendered for the definition is the database one, and the API host exactly when
\* it is the API one
C22_ValidationMatchesRendering ==
    (result # <<>> /\ args # <<>> /\ args.fn = "ModuleInstanceForm")
        => LET r == result[1]
               fields == {DatabaseFields[i] : i \in 1..Len(DatabaseFields)}
           IN  /\ (fields \subseteq DOMAIN r.errors) <=> r.panel = "database"
               /\ ("host" \in DOMAIN r.errors) <=> r.panel = "api"

====
